---- MODULE Spec2Model ----
(***************************************************************************)
(* Scheduling and execution subsystem of the Plugin-api backend:           *)
(*   - AutomationScheduler (services/scheduler.js)                         *)
(*   - executeScheduledPrompts and the schedule endpoints                  *)
(*     (api/scheduled-prompts.js)                                          *)
(*   - the scheduled_prompts / automation_logs queries                     *)
(*     (db/automation-queries.js, db/schema-automation.sql)                *)
(* Every `await` of the JavaScript code is a point where other handlers    *)
(* may run; a handler is therefore a sequence of atomic steps, one per     *)
(* awaited storage or network call.                                        *)
(* Time is counted in milliseconds, as JavaScript Date does.               *)
(***************************************************************************)
EXTENDS Integers, Sequences, FiniteSets, TLC

VARIABLES
    now,                \* current instant, in ms
    pro_keys,           \* pro_keys.status per key id
    scheduled_prompts,  \* rows of table scheduled_prompts
    nextId,             \* AUTOINCREMENT of scheduled_prompts.id
    automation_logs,    \* rows of table automation_logs, in insertion order
    settings,           \* user_integration_settings per <<key id, channel>>
    env,                \* channels with TEST_* fallback credentials in process.env
    foreign_keys,       \* whether the store enforces FOREIGN KEY clauses
    swept,              \* client IPs whose rateLimitMap entry a clean-up has deleted
    sentTexts,          \* lengths of the texts handed to Telegram's sendMessage, per send
    settingsCalls,      \* calls of the integration-settings functions, in order of issue
    usage_count,        \* pro_keys.usage_count per key id
    key_usage,          \* rows of table key_usage (their pro_key_id), in order
    usageCalls,         \* in-flight logKeyUsage / updateKeyUsage calls
    sendResults,        \* direct notifier calls made, with what each gave back
    rateLimitMap,       \* validate-key.js: rateLimitMap, per client IP
    responses,          \* answers of the validate-key handler, in order
    isRunning,          \* AutomationScheduler.isRunning
    intervalId,         \* AutomationScheduler.intervalId
    timers,             \* number of live setInterval timers
    nextFire,           \* instant at which the live timer fires next
    cycles,             \* in-flight executeScheduledPrompts calls
    requests,           \* in-flight createSchedule requests
    pickups,            \* per schedule id: loop iterations started for it
    notifierCalls,      \* outbound sends made: <<schedule id, channel>>
    faults,             \* storage calls that have failed so far
    created             \* rows inserted so far

vars == <<now, pro_keys, scheduled_prompts, nextId, automation_logs, settings,
          env, foreign_keys, swept, settingsCalls, sentTexts, usage_count, key_usage, usageCalls, sendResults, rateLimitMap, responses, isRunning, intervalId, timers, nextFire, cycles, requests,
          pickups, notifierCalls, faults, created>>

----------------------------------------------------------------------------
(* Bounds of the model *)

MaxIntervals == 1      \* timer periods the clock may run through
MaxSubSteps == 2       \* sub-second clock steps after a period boundary
MaxCycles == 2         \* poll cycles in flight at once
MaxRequests == 2       \* creation requests in flight at once
MaxCreated == 2        \* rows inserted in one behaviour
MaxFaults == 1         \* storage calls that fail in one behaviour
MaxUsageCalls == 2     \* usage-recording calls in flight at once
MaxUsages == 3         \* usage-recording calls made in one behaviour
OutageFaults == 2      \* storage calls that fail in a behaviour with an outage
DeleteWindow == 2      \* deletion requests name one of the newest ids
SubSecond == 500       \* clock step (ms) below the one-second resolution of datetime()
MaxRetentionSteps == 3 \* half retention periods the clock may run through
MaxSends == 2          \* direct notifier calls
MaxTexts == 2          \* analyses handed to the Telegram notifier
MaxSettingsCalls == 4  \* calls of the integration-settings functions
MaxValidations == 5    \* validation requests answered in one behaviour
MaxRateSteps == 4      \* half rate-limit windows the clock may run through

(* Program constants *)

checkInterval == 60000 \* scheduler.js: this.checkInterval
RATE_LIMIT_WINDOW == 10000    \* validate-key.js: 10 seconds
MAX_REQUESTS_PER_WINDOW == 3  \* validate-key.js: per window and IP
maxSchedules == 10     \* automation-queries.js: const maxSchedules

NULL == "null"
ProKeys == {1, 2}
Channels == {"telegram", "discord"}
Cycles == 1..MaxCycles
Requests == 1..MaxRequests
UsageCalls == 1..MaxUsageCalls
ClientIPs == {"A", "B"}

----------------------------------------------------------------------------
(* Storage helpers *)

\* SQLite datetime(): the instant cut to whole seconds ('YYYY-MM-DD HH:MM:SS')
Datetime(t) == t \div 1000

Max(a, b) == IF a > b THEN a ELSE b

\* time zone names a request may carry: one that Intl knows and one it rejects
Timezones == {"America/New_York", "Mars/Phobos"}

ValidTimezones == {"America/New_York", "UTC"}

\* formatDisplayTime: the instant rendered to the minute in the user's zone;
\* an unknown zone makes toLocaleString throw and the catch renders the
\* instant in the server's locale, to the second
formatDisplayTime(scheduledTime, userTimezone) ==
    IF userTimezone \in ValidTimezones
        THEN <<scheduledTime \div 60000, userTimezone>>
        ELSE <<scheduledTime \div 1000, "server locale">>

\* the time zone of the schedules that are in the store at the start
PresetTimezone == "America/New_York"

\* rows counted by checkUserScheduleLimit: status IN ('pending', 'completed')
LiveRows(proKeyId) ==
    {r \in scheduled_prompts :
        r.pro_key_id = proKeyId /\ r.status \in {"pending", "completed"}}

\* mutant: the count is a counter bumped at every insert, not a fresh count
checkUserScheduleLimitCached(proKeyId) ==
    LET currentCount == nextId - 1 IN
    [canSchedule |-> currentCount < maxSchedules,
     currentCount |-> currentCount,
     remaining |-> Max(0, maxSchedules - currentCount)]

\* mutant: the limit test is off by one
checkUserScheduleLimitOffByOne(proKeyId) ==
    LET currentCount == Cardinality(LiveRows(proKeyId)) IN
    [canSchedule |-> currentCount <= maxSchedules,
     currentCount |-> currentCount,
     remaining |-> Max(0, maxSchedules - currentCount)]

checkUserScheduleLimit(proKeyId) ==
    LET currentCount == Cardinality(LiveRows(proKeyId)) IN
    [canSchedule |-> currentCount < maxSchedules,
     currentCount |-> currentCount,
     remaining |-> Max(0, maxSchedules - currentCount)]

StatsLimit == 10       \* the literal in getAutomationStats
StatsSeconds == 604800 \* datetime('now', '-7 days')

\* the two SELECTs of getAutomationStats and the object built from them
getAutomationStats(proKeyId) ==
    LET rows == {r \in scheduled_prompts : r.pro_key_id = proKeyId}
        logs == {n \in 1..Len(automation_logs) :
                    /\ \E r \in rows : r.id = automation_logs[n].scheduled_prompt_id
                    /\ automation_logs[n].created_at >= Datetime(now) - StatsSeconds}
        total_schedules == Cardinality(rows)
    IN [schedules |->
            [total |-> total_schedules,
             pending |-> Cardinality({r \in rows : r.status = "pending"}),
             completed |-> Cardinality({r \in rows : r.status = "completed"}),
             failed |-> Cardinality({r \in rows : r.status = "failed"}),
             remaining |-> Max(0, StatsLimit - total_schedules)],
        executions |->
            [total |-> Cardinality(logs),
             successful |-> Cardinality({n \in logs : automation_logs[n].status = "success"}),
             failed |-> Cardinality({n \in logs : automation_logs[n].status = "failed"})]]

\* WHERE clause of getDueScheduledPrompts
IsDue(r) ==
    /\ r.status = "pending"
    /\ Datetime(r.scheduled_time) <= Datetime(now)
    /\ pro_keys[r.pro_key_id] = "active"

\* mutant: the query has no ORDER BY clause
OrderByNothing(S) ==
    {s \in [1..Cardinality(S) -> S] :
        \A i, j \in 1..Cardinality(S) : i < j => s[i] # s[j]}

\* ORDER BY sp.scheduled_time ASC: every ordering of S the clause allows
\* (rows with equal scheduled_time come in an order SQL leaves open)
OrderByScheduledTime(S) ==
    {s \in [1..Cardinality(S) -> S] :
        \A i, j \in 1..Cardinality(S) :
            i < j => /\ s[i] # s[j]
                     /\ s[i].scheduled_time <= s[j].scheduled_time}

getDueScheduledPrompts ==
    OrderByScheduledTime({r \in scheduled_prompts : IsDue(r)})

\* mutant: the UPDATE sets the status only
updateScheduledPromptStatusOnly(scheduleId, status) ==
    {IF r.id = scheduleId THEN [r EXCEPT !.status = status] ELSE r :
        r \in scheduled_prompts}

\* mutant: the UPDATE also renders the display string again, in UTC
updateScheduledPromptStatusReformats(scheduleId, status) ==
    {IF r.id = scheduleId
        THEN [r EXCEPT !.status = status,
                       !.execution_count = r.execution_count + 1,
                       !.display_time = formatDisplayTime(r.scheduled_time, "UTC")]
        ELSE r : r \in scheduled_prompts}

\* UPDATE scheduled_prompts SET status = ?, updated_at = datetime('now'),
\*  execution_count = execution_count + 1 WHERE id = ?
\* (last_execution is not among the columns the statement sets; updated_at,
\* which nothing reads, is not kept in the model's rows)
updateScheduledPromptStatus(scheduleId, status) ==
    {IF r.id = scheduleId
        THEN [r EXCEPT !.status = status,
                       !.execution_count = r.execution_count + 1]
        ELSE r : r \in scheduled_prompts}

\* trigger cleanup_old_automation_logs: created_at < datetime('now', '-2 days')
RetentionSeconds == 172800
Expired(l) == l.created_at < Datetime(now) - RetentionSeconds

\* mutant: the log write is acknowledged and stores nothing
logAutomationExecutionLost(scheduledPromptId, status, integrationResults) ==
    automation_logs

\* INSERT INTO automation_logs, then the AFTER INSERT trigger
logAutomationExecution(scheduledPromptId, status, integrationResults) ==
    SelectSeq(Append(automation_logs,
                     [scheduled_prompt_id |-> scheduledPromptId,
                      status |-> status,
                      integration_results |-> integrationResults,
                      created_at |-> Datetime(now)]),
              LAMBDA l : ~Expired(l))

\* `limit = 50`: default of getAutomationExecutionHistory
HistoryLimit == 50

Min(a, b) == IF a < b THEN a ELSE b

\* SELECT * FROM automation_logs WHERE scheduled_prompt_id = ?
\*  ORDER BY created_at DESC LIMIT ?
\* (rows are inserted in the order of their created_at)
getAutomationExecutionHistory(scheduledPromptId, limit) ==
    LET rows == SelectSeq(automation_logs,
                    LAMBDA l : l.scheduled_prompt_id = scheduledPromptId)
        newestFirst == [n \in 1..Len(rows) |-> rows[Len(rows) + 1 - n]]
    IN SubSeq(newestFirst, 1, Min(limit, Len(rows)))

\* SELECT sp.*, COUNT(al.id) as total_executions FROM scheduled_prompts sp
\*  LEFT JOIN automation_logs al ON sp.id = al.scheduled_prompt_id
\*  WHERE sp.pro_key_id = ? GROUP BY sp.id
getUserScheduledPrompts(proKeyId) ==
    {[id |-> r.id, status |-> r.status,
      scheduledTime |-> r.scheduled_time,
      displayTime |-> r.display_time,
      userTimezone |-> r.user_timezone,
      total_executions |->
        Cardinality({n \in 1..Len(automation_logs) :
                        automation_logs[n].scheduled_prompt_id = r.id})] :
     r \in {x \in scheduled_prompts : x.pro_key_id = proKeyId}}

\* SELECT ... FROM user_integration_settings WHERE ... AND is_active = TRUE
getUserIntegrationSettings(proKeyId, integrationType) ==
    IF settings[<<proKeyId, integrationType>>] \in {"complete", "incomplete"}
        THEN settings[<<proKeyId, integrationType>>]
        ELSE NULL

\* mutant: the test credentials are used without looking at process.env
getTelegramSettingsNoEnvCheck(proKeyId) ==
    IF getUserIntegrationSettings(proKeyId, "telegram") = "complete" THEN "user"
    ELSE "test"

getTelegramSettings(proKeyId) ==
    IF getUserIntegrationSettings(proKeyId, "telegram") = "complete" THEN "user"
    ELSE IF "telegram" \in env THEN "test"
    ELSE NULL

getDiscordSettings(proKeyId) ==
    IF getUserIntegrationSettings(proKeyId, "discord") = "complete" THEN "user"
    ELSE IF "discord" \in env THEN "test"
    ELSE NULL

----------------------------------------------------------------------------
(* Notifiers: sendAnalysisToTelegram / sendAnalysisToDiscord *)

\* what the Telegram Bot API call can meet: a 2xx answer with a result, a 2xx
\* answer without one, a rejected fetch, a non-2xx answer with a JSON body,
\* any answer whose body is not JSON
TelegramRemotes ==
    {"ok", "ok without result", "network error", "not ok", "body not json"}

\* what the Discord webhook call can meet: a 2xx answer (its body is not
\* read), a rejected fetch, a non-2xx answer, a non-2xx answer whose body
\* cannot be read
DiscordRemotes == {"ok", "network error", "not ok", "not ok, body unreadable"}

\* `throw new Error(message)`, or a rejected await
Throw(message) == [thrown |-> TRUE, success |-> FALSE, error |-> message]

\* `return { success: true, ... }`
ReturnSuccess == [thrown |-> FALSE, success |-> TRUE, error |-> NULL]

\* sendTelegramMessage: fetch, response.json(), `if (!response.ok) throw`,
\* data.result.message_id
sendTelegramMessage(remote) ==
    CASE remote = "network error" -> Throw("fetch failed")
      [] remote = "body not json" -> Throw("Unexpected token")
      [] remote = "not ok" -> Throw("description or HTTP status")
      [] remote = "ok without result" -> Throw("Cannot read properties of undefined")
      [] OTHER -> ReturnSuccess

\* mutant: the function has no try/catch
CatchNothing(attempt) == attempt

\* `catch (error) { return { success: false, error: error.message } }`
CatchAsResult(attempt) ==
    IF attempt.thrown
        THEN [thrown |-> FALSE, success |-> FALSE, error |-> attempt.error]
        ELSE attempt

sendAnalysisToTelegram(botToken, chatId, remote) ==
    CatchAsResult(
        IF ~botToken \/ ~chatId
            THEN Throw("Bot token and chat ID are required")
            ELSE sendTelegramMessage(remote))

sendAnalysisToDiscord(webhookUrl, remote) ==
    CatchAsResult(
        IF ~webhookUrl THEN Throw("Discord webhook URL is required")
        ELSE CASE remote = "network error" -> Throw("fetch failed")
               [] remote = "not ok" -> Throw("Discord webhook failed: status - text")
               [] remote = "not ok, body unreadable" -> Throw("body stream error")
               [] OTHER -> ReturnSuccess)

----------------------------------------------------------------------------
(* Rate limiting of the validate-key handler *)

\* `!rateLimitMap.has(key)`: the map holds nothing for the IP
NoEntry == [count |-> 0, firstRequest |-> 0]

\* `rateLimitMap.set(key, { count: 1, firstRequest: now })`
NewWindow(clientIP) ==
    [rateLimitMap EXCEPT ![clientIP] = [count |-> 1, firstRequest |-> now]]

\* mutant: the window is reset at, not after, RATE_LIMIT_WINDOW
isRateLimitedResetsAtWindow(clientIP) ==
    LET rateData == rateLimitMap[clientIP] IN
    IF rateData = NoEntry \/ now - rateData.firstRequest >= RATE_LIMIT_WINDOW
        THEN [limited |-> FALSE, map |-> NewWindow(clientIP)]
    ELSE IF rateData.count >= MAX_REQUESTS_PER_WINDOW
        THEN [limited |-> TRUE, map |-> rateLimitMap]
    ELSE [limited |-> FALSE,
          map |-> [rateLimitMap EXCEPT ![clientIP].count = @ + 1]]

\* mutant: a client that has used up its window stays rejected
isRateLimitedNoResetWhenFull(clientIP) ==
    LET rateData == rateLimitMap[clientIP] IN
    IF rateData = NoEntry
        THEN [limited |-> FALSE, map |-> NewWindow(clientIP)]
    ELSE IF rateData.count >= MAX_REQUESTS_PER_WINDOW
        THEN [limited |-> TRUE, map |-> rateLimitMap]
    ELSE IF now - rateData.firstRequest > RATE_LIMIT_WINDOW
        THEN [limited |-> FALSE, map |-> NewWindow(clientIP)]
    ELSE [limited |-> FALSE,
          map |-> [rateLimitMap EXCEPT ![clientIP].count = @ + 1]]

\* mutant: one counter for all clients
isRateLimitedSharedCounter(clientIP) ==
    LET rateData == rateLimitMap[clientIP] IN
    IF rateData = NoEntry \/ now - rateData.firstRequest > RATE_LIMIT_WINDOW
        THEN [limited |-> FALSE, map |-> NewWindow(clientIP)]
    ELSE IF rateData.count >= MAX_REQUESTS_PER_WINDOW
        THEN [limited |-> TRUE, map |-> rateLimitMap]
    ELSE [limited |-> FALSE,
          map |-> [ip \in ClientIPs |->
                    IF rateLimitMap[ip] = NoEntry THEN NoEntry
                    ELSE [rateLimitMap[ip] EXCEPT !.count = @ + 1]]]

\* isRateLimited(clientIP): what it returns and the map it leaves
isRateLimited(clientIP) ==
    LET rateData == rateLimitMap[clientIP] IN
    IF rateData = NoEntry \/ now - rateData.firstRequest > RATE_LIMIT_WINDOW
        THEN [limited |-> FALSE, map |-> NewWindow(clientIP)]
    ELSE IF rateData.count >= MAX_REQUESTS_PER_WINDOW
        THEN [limited |-> TRUE, map |-> rateLimitMap]
    ELSE [limited |-> FALSE,
          map |-> [rateLimitMap EXCEPT ![clientIP].count = @ + 1]]

----------------------------------------------------------------------------
(* Initial state *)

\* `integrations || { telegram: false, discord: false }`
NoIntegrations == [telegram |-> FALSE, discord |-> FALSE]

InitResults ==
    [telegram |-> FALSE, discord |-> FALSE,
     telegramError |-> NULL, discordError |-> NULL]

IdleCycle ==
    [pc |-> "idle", origin |-> NULL, duePrompts |-> <<>>, i |-> 0,
     integrationResults |-> InitResults, executed |-> 0, failed |-> 0]

IdleRequest ==
    [pc |-> "idle", proKeyId |-> 0, scheduledTime |-> 0,
     integrations |-> NoIntegrations, currentCount |-> 0, response |-> NULL,
     userTimezone |-> NULL, displayTime |-> NULL]

\* channel flags a schedule may carry
IntegrationChoices ==
    {NoIntegrations,
     [telegram |-> TRUE, discord |-> FALSE],
     [telegram |-> TRUE, discord |-> TRUE]}

\* integration settings saved before the behaviour starts
SettingsChoices ==
    {[k \in ProKeys \X Channels |-> "none"],
     [k \in ProKeys \X Channels |->
        IF k[1] = 1 THEN (IF k[2] = "telegram" THEN "complete" ELSE "deleted")
        ELSE "none"],
     [k \in ProKeys \X Channels |->
        IF k[1] = 1 THEN (IF k[2] = "telegram" THEN "incomplete" ELSE "complete")
        ELSE "none"]}

IdleUsage == [pc |-> "idle", proKeyId |-> 0]

\* everything but the count of rejected storage calls
InitQuiet ==
    /\ now = 0
    /\ usage_count = [k \in ProKeys |-> 0]
    /\ key_usage = <<>>
    /\ sentTexts = <<>>
    /\ swept = {}
    /\ settingsCalls = <<>>
    /\ usageCalls = [u \in UsageCalls |-> IdleUsage]
    /\ rateLimitMap = [ip \in ClientIPs |-> NoEntry]
    /\ responses = <<>>
    /\ sendResults = <<>>
    /\ pro_keys = [k \in ProKeys |-> "active"]
    /\ automation_logs = <<>>
    /\ isRunning = FALSE
    /\ intervalId = NULL
    /\ timers = 0
    /\ nextFire = 0
    /\ cycles = [c \in Cycles |-> IdleCycle]
    /\ requests = [q \in Requests |-> IdleRequest]
    /\ notifierCalls = {}
    /\ created = 0

InitCommon ==
    /\ InitQuiet
    /\ faults = 0

\* a schedule of key 1 that was created earlier for instant 0, with any
\* channel flags
PresetRows(integrations) ==
    {[id |-> 1, pro_key_id |-> 1, scheduled_time |-> 0,
      status |-> "pending", execution_count |-> 0,
      last_execution |-> NULL,
      prompt_title |-> "title", prompt_content |-> "content",
      user_timezone |-> PresetTimezone,
      display_time |-> formatDisplayTime(0, PresetTimezone),
      integrations |-> integrations]}

\* the service starts with one pending schedule in the store
Init ==
    /\ InitCommon
    /\ settings \in SettingsChoices
    /\ env \in {{}, Channels}
    /\ foreign_keys = FALSE
    /\ \E integrations \in IntegrationChoices :
            scheduled_prompts = PresetRows(integrations)
    /\ nextId = 2
    /\ pickups = [id \in {1} |-> 0]

\* schedules of every kind the due query tells apart
DueUniverse ==
    {[id |-> 1, pro_key_id |-> 1, scheduled_time |-> 0,
      status |-> "pending", execution_count |-> 0,
      last_execution |-> NULL,
      prompt_title |-> "title", prompt_content |-> "content",
      user_timezone |-> PresetTimezone,
      display_time |-> formatDisplayTime(0, PresetTimezone),
      integrations |-> NoIntegrations],
     [id |-> 2, pro_key_id |-> 1, scheduled_time |-> SubSecond,
      status |-> "pending", execution_count |-> 0,
      last_execution |-> NULL,
      prompt_title |-> "title", prompt_content |-> "content",
      user_timezone |-> PresetTimezone,
      display_time |-> formatDisplayTime(SubSecond, PresetTimezone),
      integrations |-> [telegram |-> TRUE, discord |-> TRUE]],
     [id |-> 3, pro_key_id |-> 1, scheduled_time |-> 2 * SubSecond,
      status |-> "pending", execution_count |-> 0,
      last_execution |-> NULL,
      prompt_title |-> "title", prompt_content |-> "content",
      user_timezone |-> PresetTimezone,
      display_time |-> formatDisplayTime(2 * SubSecond, PresetTimezone),
      integrations |-> NoIntegrations],
     [id |-> 4, pro_key_id |-> 2, scheduled_time |-> 0,
      status |-> "pending", execution_count |-> 0,
      last_execution |-> NULL,
      prompt_title |-> "title", prompt_content |-> "content",
      user_timezone |-> PresetTimezone,
      display_time |-> formatDisplayTime(0, PresetTimezone),
      integrations |-> NoIntegrations],
     [id |-> 5, pro_key_id |-> 1, scheduled_time |-> 0,
      status |-> "completed", execution_count |-> 1,
      last_execution |-> NULL,
      prompt_title |-> "title", prompt_content |-> "content",
      user_timezone |-> PresetTimezone,
      display_time |-> formatDisplayTime(0, PresetTimezone),
      integrations |-> NoIntegrations],
     [id |-> 6, pro_key_id |-> 1, scheduled_time |-> 0,
      status |-> "failed", execution_count |-> 1,
      last_execution |-> NULL,
      prompt_title |-> "title", prompt_content |-> "content",
      user_timezone |-> PresetTimezone,
      display_time |-> formatDisplayTime(0, PresetTimezone),
      integrations |-> NoIntegrations],
     [id |-> 7, pro_key_id |-> 1, scheduled_time |-> 0,
      status |-> "cancelled", execution_count |-> 0,
      last_execution |-> NULL,
      prompt_title |-> "title", prompt_content |-> "content",
      user_timezone |-> PresetTimezone,
      display_time |-> formatDisplayTime(0, PresetTimezone),
      integrations |-> NoIntegrations]}

\* the store holds one or two of these schedules; the logs of the executed
\* ones have expired
InitDue ==
    /\ InitCommon
    /\ settings = [k \in ProKeys \X Channels |-> "none"]
    /\ env = {}
    /\ foreign_keys = FALSE
    /\ scheduled_prompts \in
          {S \in SUBSET DueUniverse : Cardinality(S) \in {1, 2}}
    /\ nextId = Cardinality(DueUniverse) + 1
    /\ pickups = [id \in 1..Cardinality(DueUniverse) |-> 0]

\* the store holds a schedule that is due now and one that falls due within
\* the first timer period
InitLive ==
    /\ InitCommon
    /\ settings = [k \in ProKeys \X Channels |-> "none"]
    /\ env = {}
    /\ foreign_keys = FALSE
    /\ scheduled_prompts = {r \in DueUniverse : r.id \in {1, 2}}
    /\ nextId = Cardinality(DueUniverse) + 1
    /\ pickups = [id \in 1..Cardinality(DueUniverse) |-> 0]

\* a schedule of key 1 with both channel flags and one of key 2 with none,
\* both due at instant 0
LoggedRows ==
    PresetRows([telegram |-> TRUE, discord |-> TRUE]) \cup
    {[id |-> 2, pro_key_id |-> 2, scheduled_time |-> 0,
      status |-> "pending", execution_count |-> 0,
      last_execution |-> NULL,
      prompt_title |-> "title", prompt_content |-> "content",
      user_timezone |-> PresetTimezone,
      display_time |-> formatDisplayTime(0, PresetTimezone),
      integrations |-> NoIntegrations]}

\* the store holds these two schedules
InitCount ==
    /\ InitCommon
    /\ settings = [k \in ProKeys \X Channels |-> "none"]
    /\ env = {}
    /\ foreign_keys \in BOOLEAN
    /\ scheduled_prompts = LoggedRows
    /\ nextId = Cardinality(LoggedRows) + 1
    /\ pickups = [id \in {r.id : r \in LoggedRows} |-> 0]

\* the store holds the same two schedules, foreign keys are not enforced, and
\* the store may reject up to OutageFaults calls (StorageFault counts up to
\* MaxFaults)
InitOutage ==
    /\ InitQuiet
    /\ faults = MaxFaults - OutageFaults
    /\ settings = [k \in ProKeys \X Channels |-> "none"]
    /\ env = {}
    /\ foreign_keys = FALSE
    /\ scheduled_prompts = LoggedRows
    /\ nextId = Cardinality(LoggedRows) + 1
    /\ pickups = [id \in {r.id : r \in LoggedRows} |-> 0]

\* the store holds one due schedule, with both channel flags
InitFrame ==
    /\ InitCommon
    /\ settings = [k \in ProKeys \X Channels |-> "none"]
    /\ env = {}
    /\ foreign_keys = FALSE
    /\ scheduled_prompts = PresetRows([telegram |-> TRUE, discord |-> TRUE])
    /\ nextId = 2
    /\ pickups = [id \in {1} |-> 0]

\* the store holds one schedule, with both channel flags; the source does
\* not set PRAGMA foreign_keys, swept, settingsCalls, sentTexts, usage_count, key_usage, usageCalls, so the store may or may not enforce them
InitLogs ==
    /\ InitCommon
    /\ settings = [k \in ProKeys \X Channels |-> "none"]
    /\ env = {}
    /\ foreign_keys \in BOOLEAN
    /\ scheduled_prompts = PresetRows([telegram |-> TRUE, discord |-> TRUE])
    /\ nextId = 2
    /\ pickups = [id \in {1} |-> 0]

\* an instant far beyond the part of the clock the model runs through
FarFuture == (MaxIntervals + 2) * checkInterval

\* key 1 has created maxSchedules - 1 schedules for a far instant;
\* nothing else has happened
InitQuota ==
    /\ InitCommon
    /\ settings = [k \in ProKeys \X Channels |-> "none"]
    /\ env = {}
    /\ foreign_keys = FALSE
    /\ scheduled_prompts =
          {[id |-> n, pro_key_id |-> 1, scheduled_time |-> FarFuture,
            status |-> "pending", execution_count |-> 0,
            last_execution |-> NULL,
            prompt_title |-> "title", prompt_content |-> "content",
            user_timezone |-> PresetTimezone,
            display_time |-> formatDisplayTime(FarFuture, PresetTimezone),
            integrations |-> NoIntegrations] :
           n \in 1..(maxSchedules - 1)}
    /\ nextId = maxSchedules
    /\ pickups = [id \in 1..(maxSchedules - 1) |-> 0]

----------------------------------------------------------------------------
(* AutomationScheduler *)

FreeCycle(c) ==
    /\ cycles[c].pc = "idle"
    /\ \A d \in Cycles : d < c => cycles[d].pc # "idle"

\* checkAndExecute / manualExecute up to the first await of
\* executeScheduledPrompts
BeginCycle(c, origin) ==
    cycles' = [cycles EXCEPT ![c] = [IdleCycle EXCEPT !.pc = "getDue",
                                                      !.origin = origin]]

\* mutant: start() does not look at isRunning
StartUnguarded ==
    /\ \E c \in Cycles : FreeCycle(c) /\ BeginCycle(c, "timer")
    /\ isRunning' = TRUE
    /\ intervalId' = "timer"
    /\ timers' = timers + 1
    /\ nextFire' = now + checkInterval
    /\ UNCHANGED <<now, pro_keys, scheduled_prompts, nextId,
                   automation_logs, settings, env, foreign_keys, swept, settingsCalls, sentTexts, usage_count, key_usage, usageCalls, sendResults, rateLimitMap, responses, requests, pickups,
                   notifierCalls, faults, created>>

Start ==
    IF isRunning
    THEN UNCHANGED vars
    ELSE /\ \E c \in Cycles : FreeCycle(c) /\ BeginCycle(c, "timer")
         /\ isRunning' = TRUE
         /\ intervalId' = "timer"
         /\ timers' = timers + 1
         /\ nextFire' = now + checkInterval
         /\ UNCHANGED <<now, pro_keys, scheduled_prompts, nextId,
                        automation_logs, settings, env, foreign_keys, swept, settingsCalls, sentTexts, usage_count, key_usage, usageCalls, sendResults, rateLimitMap, responses, requests, pickups,
                        notifierCalls, faults, created>>

\* mutant: stop() forgets clearInterval
StopKeepsTimer ==
    IF ~isRunning
    THEN UNCHANGED vars
    ELSE /\ isRunning' = FALSE
         /\ intervalId' = NULL
         /\ UNCHANGED <<now, pro_keys, scheduled_prompts, nextId,
                        automation_logs, settings, env, foreign_keys, swept, settingsCalls, sentTexts, usage_count, key_usage, usageCalls, sendResults, rateLimitMap, responses, timers, nextFire,
                        cycles, requests, pickups, notifierCalls, faults,
                        created>>

Stop ==
    IF ~isRunning
    THEN UNCHANGED vars
    ELSE /\ isRunning' = FALSE
         /\ intervalId' = NULL
         /\ timers' = IF intervalId # NULL THEN timers - 1 ELSE timers
         /\ nextFire' = IF intervalId # NULL THEN 0 ELSE nextFire
         /\ UNCHANGED <<now, pro_keys, scheduled_prompts, nextId,
                        automation_logs, settings, env, foreign_keys, swept, settingsCalls, sentTexts, usage_count, key_usage, usageCalls, sendResults, rateLimitMap, responses, cycles,
                        requests, pickups, notifierCalls, faults, created>>

\* SIGTERM / SIGINT: the listener of app.js, registered before the one of
\* initializeScheduler, calls process.exit(0); the process ends at once, its
\* timer and its pending awaits with it (a restart is not modelled)
Shutdown ==
    /\ \E c \in Cycles : cycles[c].pc # "exited"
    /\ cycles' = [c \in Cycles |-> [IdleCycle EXCEPT !.pc = "exited"]]
    /\ isRunning' = FALSE
    /\ intervalId' = NULL
    /\ timers' = 0
    /\ nextFire' = 0
    /\ UNCHANGED <<now, pro_keys, scheduled_prompts, nextId, automation_logs,
                   settings, env, foreign_keys, swept, settingsCalls, sentTexts, usage_count, key_usage, usageCalls, sendResults, rateLimitMap,
                   responses, requests, pickups, notifierCalls, faults,
                   created>>

\* the setInterval callback: the period has elapsed
TimerTick ==
    /\ timers > 0
    /\ nextFire <= MaxIntervals * checkInterval
    /\ now' = nextFire
    /\ nextFire' = nextFire + checkInterval
    /\ \E c \in Cycles : FreeCycle(c) /\ BeginCycle(c, "timer")
    /\ UNCHANGED <<pro_keys, scheduled_prompts, nextId, automation_logs,
                   settings, env, foreign_keys, swept, settingsCalls, sentTexts, usage_count, key_usage, usageCalls, sendResults, rateLimitMap, responses, isRunning, intervalId, timers, requests,
                   pickups, notifierCalls, faults, created>>

\* time passing below the timer period
Elapse ==
    /\ now % checkInterval < MaxSubSteps * SubSecond
    /\ timers > 0 => now + SubSecond < nextFire
    /\ now' = now + SubSecond
    /\ UNCHANGED <<pro_keys, scheduled_prompts, nextId, automation_logs,
                   settings, env, foreign_keys, swept, settingsCalls, sentTexts, usage_count, key_usage, usageCalls, sendResults, rateLimitMap, responses, isRunning, intervalId, timers, nextFire,
                   cycles, requests, pickups, notifierCalls, faults, created>>

\* a whole period passing while no timer is live
ElapseInterval ==
    /\ timers = 0
    /\ now + checkInterval <= MaxIntervals * checkInterval
    /\ now' = now + checkInterval
    /\ UNCHANGED <<pro_keys, scheduled_prompts, nextId, automation_logs,
                   settings, env, foreign_keys, swept, settingsCalls, sentTexts, usage_count, key_usage, usageCalls, sendResults, rateLimitMap, responses, isRunning, intervalId, timers, nextFire,
                   cycles, requests, pickups, notifierCalls, faults, created>>

\* half of the retention period of automation_logs, in ms
HalfRetention == (RetentionSeconds * 1000) \div 2

\* half a retention period passing while no timer is live
ElapseRetention ==
    /\ timers = 0
    /\ now < MaxRetentionSteps * HalfRetention
    /\ now' = now + HalfRetention
    /\ UNCHANGED <<pro_keys, scheduled_prompts, nextId, automation_logs,
                   settings, env, foreign_keys, swept, settingsCalls, sentTexts, usage_count, key_usage, usageCalls, sendResults, rateLimitMap, responses, isRunning, intervalId, timers, nextFire,
                   cycles, requests, pickups, notifierCalls, faults, created>>

\* a caller awaits sendAnalysisToTelegram with any arguments
CallTelegram ==
    /\ Len(sendResults) < MaxSends
    /\ \E botToken \in BOOLEAN, chatId \in BOOLEAN, remote \in TelegramRemotes :
        sendResults' = Append(sendResults,
            [channel |-> "telegram", arguments |-> botToken /\ chatId,
             remote |-> remote,
             result |-> sendAnalysisToTelegram(botToken, chatId, remote)])
    /\ UNCHANGED <<now, pro_keys, scheduled_prompts, nextId, automation_logs,
                   settings, env, foreign_keys, swept, settingsCalls, sentTexts, usage_count, key_usage, usageCalls, rateLimitMap, responses,
                   isRunning, intervalId, timers, nextFire, cycles, requests,
                   pickups, notifierCalls, faults, created>>

\* a caller awaits sendAnalysisToDiscord with any arguments
CallDiscord ==
    /\ Len(sendResults) < MaxSends
    /\ \E webhookUrl \in BOOLEAN, remote \in DiscordRemotes :
        sendResults' = Append(sendResults,
            [channel |-> "discord", arguments |-> webhookUrl,
             remote |-> remote,
             result |-> sendAnalysisToDiscord(webhookUrl, remote)])
    /\ UNCHANGED <<now, pro_keys, scheduled_prompts, nextId, automation_logs,
                   settings, env, foreign_keys, swept, settingsCalls, sentTexts, usage_count, key_usage, usageCalls, rateLimitMap, responses,
                   isRunning, intervalId, timers, nextFire, cycles, requests,
                   pickups, notifierCalls, faults, created>>

\* POST /api/scheduled-prompts/execute
manualExecute ==
    /\ \E c \in Cycles : FreeCycle(c) /\ BeginCycle(c, "manual")
    /\ UNCHANGED <<now, pro_keys, scheduled_prompts, nextId, automation_logs,
                   settings, env, foreign_keys, swept, settingsCalls, sentTexts, usage_count, key_usage, usageCalls, sendResults, rateLimitMap, responses, isRunning, intervalId, timers, nextFire,
                   requests, pickups, notifierCalls, faults, created>>

----------------------------------------------------------------------------
(* executeScheduledPrompts: one step per awaited call *)

\* the first await of one loop iteration
FirstAwait(prompt) ==
    IF prompt.integrations.telegram THEN "telegram"
    ELSE IF prompt.integrations.discord THEN "discord"
    ELSE "logSuccess"

\* `for (const prompt of duePrompts)`: iteration k begins
StartPrompt(cy, k) ==
    [cy EXCEPT !.i = k,
               !.pc = FirstAwait(cy.duePrompts[k]),
               !.integrationResults = InitResults]

\* mutant: the catch block ends the loop (`break`) after a failed execution
NextPromptStopsOnFailure(c, cy) ==
    IF cy.i < Len(cy.duePrompts) /\ cy.failed = 0
    THEN /\ cycles' = [cycles EXCEPT ![c] = StartPrompt(cy, cy.i + 1)]
         /\ pickups' = [pickups EXCEPT ![cy.duePrompts[cy.i + 1].id] = @ + 1]
    ELSE /\ cycles' = [cycles EXCEPT ![c] = IdleCycle]
         /\ UNCHANGED pickups

\* the iteration of cycle c is over: the next one begins, or the call returns
NextPrompt(c, cy) ==
    IF cy.i < Len(cy.duePrompts)
    THEN /\ cycles' = [cycles EXCEPT ![c] = StartPrompt(cy, cy.i + 1)]
         /\ pickups' = [pickups EXCEPT ![cy.duePrompts[cy.i + 1].id] = @ + 1]
    ELSE /\ cycles' = [cycles EXCEPT ![c] = IdleCycle]
         /\ UNCHANGED pickups

\* FOREIGN KEY (scheduled_prompt_id) REFERENCES scheduled_prompts (id), when
\* enforced: a log row cannot name a schedule that has no record
InsertViolatesForeignKey(scheduledPromptId) ==
    /\ foreign_keys
    /\ \A r \in scheduled_prompts : r.id # scheduledPromptId

\* the same clause, when enforced: a schedule that log rows name cannot be
\* deleted (no ON DELETE action is declared)
DeleteViolatesForeignKey(deleted) ==
    /\ foreign_keys
    /\ \E n \in 1..Len(automation_logs) :
            automation_logs[n].scheduled_prompt_id \in {r.id : r \in deleted}

\* a storage call rejects
StorageFault ==
    /\ faults < MaxFaults
    /\ faults' = faults + 1

\* mutant: nothing catches the rejected promise and the process ends, its
\* timer with it
CycleThrowsUnhandled(c) ==
    /\ cycles' = [cycles EXCEPT ![c] = IdleCycle]
    /\ timers' = 0
    /\ UNCHANGED <<pickups, isRunning, intervalId, nextFire>>

\* the error leaves executeScheduledPrompts (outer catch rethrows); the caller
\* (checkAndExecute, manualExecute) catches and logs it
CycleThrows(c) ==
    /\ cycles' = [cycles EXCEPT ![c] = IdleCycle]
    /\ UNCHANGED <<pickups, isRunning, intervalId, timers, nextFire>>

GetDue(c) ==
    /\ cycles[c].pc = "getDue"
    /\ \/ /\ StorageFault
          /\ CycleThrows(c)
       \/ /\ UNCHANGED <<faults, isRunning, intervalId, timers, nextFire>>
          /\ \E due \in getDueScheduledPrompts :
                IF Len(due) = 0
                THEN /\ cycles' = [cycles EXCEPT ![c] = IdleCycle]
                     /\ UNCHANGED pickups
                ELSE /\ cycles' = [cycles EXCEPT ![c] =
                            StartPrompt([cycles[c] EXCEPT !.duePrompts = due], 1)]
                     /\ pickups' = [pickups EXCEPT ![due[1].id] = @ + 1]
    /\ UNCHANGED <<now, pro_keys, scheduled_prompts, nextId, automation_logs,
                   settings, env, foreign_keys, swept, settingsCalls, sentTexts, usage_count, key_usage, usageCalls, sendResults, rateLimitMap, responses, requests, notifierCalls, created>>

\* outcomes of sendAnalysisToTelegram / sendAnalysisToDiscord
SendOutcomes == {"delivered", "send failed"}

\* mutant: no try/catch around the Telegram block; a failed send or missing
\* settings throw, and the Discord block is skipped
TelegramUncaught(c) ==
    LET cy == cycles[c]
        prompt == cy.duePrompts[cy.i]
        after == IF prompt.integrations.discord THEN "discord" ELSE "logSuccess"
    IN
    /\ cy.pc = "telegram"
    /\ \/ /\ StorageFault
          /\ cycles' = [cycles EXCEPT ![c].pc = "logFailed"]
          /\ UNCHANGED notifierCalls
       \/ /\ UNCHANGED faults
          /\ IF getTelegramSettings(prompt.pro_key_id) # NULL
             THEN \E outcome \in SendOutcomes :
                    /\ notifierCalls' = notifierCalls \cup {<<prompt.id, "telegram">>}
                    /\ cycles' = [cycles EXCEPT
                          ![c].pc = IF outcome = "delivered" THEN after
                                    ELSE "logFailed",
                          ![c].integrationResults.telegram = (outcome = "delivered")]
             ELSE /\ cycles' = [cycles EXCEPT ![c].pc = "logFailed"]
                  /\ UNCHANGED notifierCalls
    /\ UNCHANGED <<now, pro_keys, scheduled_prompts, nextId, automation_logs,
                   settings, env, foreign_keys, swept, settingsCalls, sentTexts, usage_count, key_usage, usageCalls, sendResults, rateLimitMap, responses, isRunning, intervalId, timers, nextFire,
                   requests, pickups, created>>

\* `if (integrations.telegram) { ... }`
Telegram(c) ==
    LET cy == cycles[c]
        prompt == cy.duePrompts[cy.i]
        after == IF prompt.integrations.discord THEN "discord" ELSE "logSuccess"
    IN
    /\ cy.pc = "telegram"
    /\ \/ \* the settings query rejects: getTelegramSettings returns null
          /\ StorageFault
          /\ cycles' = [cycles EXCEPT ![c].pc = after,
                ![c].integrationResults.telegramError = "not configured"]
          /\ UNCHANGED notifierCalls
       \/ /\ UNCHANGED faults
          /\ IF getTelegramSettings(prompt.pro_key_id) # NULL
             THEN \E outcome \in SendOutcomes :
                    /\ notifierCalls' = notifierCalls \cup {<<prompt.id, "telegram">>}
                    /\ cycles' = [cycles EXCEPT ![c].pc = after,
                          ![c].integrationResults.telegram = (outcome = "delivered"),
                          ![c].integrationResults.telegramError =
                              IF outcome = "delivered" THEN NULL ELSE outcome]
             ELSE /\ cycles' = [cycles EXCEPT ![c].pc = after,
                        ![c].integrationResults.telegramError = "not configured"]
                  /\ UNCHANGED notifierCalls
    /\ UNCHANGED <<now, pro_keys, scheduled_prompts, nextId, automation_logs,
                   settings, env, foreign_keys, swept, settingsCalls, sentTexts, usage_count, key_usage, usageCalls, sendResults, rateLimitMap, responses, isRunning, intervalId, timers, nextFire,
                   requests, pickups, created>>

\* mutant: no try/catch around the Discord block and a failed send throws
DiscordUncaught(c) ==
    LET cy == cycles[c]
        prompt == cy.duePrompts[cy.i]
    IN
    /\ cy.pc = "discord"
    /\ UNCHANGED faults
    /\ IF getDiscordSettings(prompt.pro_key_id) # NULL
       THEN \E outcome \in SendOutcomes :
              /\ notifierCalls' = notifierCalls \cup {<<prompt.id, "discord">>}
              /\ cycles' = [cycles EXCEPT
                    ![c].pc = IF outcome = "delivered" THEN "logSuccess"
                              ELSE "logFailed",
                    ![c].integrationResults.discord = (outcome = "delivered")]
       ELSE /\ cycles' = [cycles EXCEPT ![c].pc = "logFailed"]
            /\ UNCHANGED notifierCalls
    /\ UNCHANGED <<now, pro_keys, scheduled_prompts, nextId, automation_logs,
                   settings, env, foreign_keys, swept, settingsCalls, sentTexts, usage_count, key_usage, usageCalls, sendResults, rateLimitMap, responses, isRunning, intervalId, timers, nextFire,
                   requests, pickups, created>>

\* `if (integrations.discord) { ... }`
Discord(c) ==
    LET cy == cycles[c]
        prompt == cy.duePrompts[cy.i]
    IN
    /\ cy.pc = "discord"
    /\ \/ /\ StorageFault
          /\ cycles' = [cycles EXCEPT ![c].pc = "logSuccess",
                ![c].integrationResults.discordError = "not configured"]
          /\ UNCHANGED notifierCalls
       \/ /\ UNCHANGED faults
          /\ IF getDiscordSettings(prompt.pro_key_id) # NULL
             THEN \E outcome \in SendOutcomes :
                    /\ notifierCalls' = notifierCalls \cup {<<prompt.id, "discord">>}
                    /\ cycles' = [cycles EXCEPT ![c].pc = "logSuccess",
                          ![c].integrationResults.discord = (outcome = "delivered"),
                          ![c].integrationResults.discordError =
                              IF outcome = "delivered" THEN NULL ELSE outcome]
             ELSE /\ cycles' = [cycles EXCEPT ![c].pc = "logSuccess",
                        ![c].integrationResults.discordError = "not configured"]
                  /\ UNCHANGED notifierCalls
    /\ UNCHANGED <<now, pro_keys, scheduled_prompts, nextId, automation_logs,
                   settings, env, foreign_keys, swept, settingsCalls, sentTexts, usage_count, key_usage, usageCalls, sendResults, rateLimitMap, responses, isRunning, intervalId, timers, nextFire,
                   requests, pickups, created>>

\* await logAutomationExecution({status: 'success', ...}) in the try block
LogSuccess(c) ==
    LET cy == cycles[c]
        prompt == cy.duePrompts[cy.i]
    IN
    /\ cy.pc = "logSuccess"
    /\ \/ /\ \/ StorageFault
             \/ InsertViolatesForeignKey(prompt.id) /\ UNCHANGED faults
          /\ cycles' = [cycles EXCEPT ![c].pc = "logFailed"]
          /\ UNCHANGED automation_logs
       \/ /\ UNCHANGED faults
          /\ ~InsertViolatesForeignKey(prompt.id)
          /\ automation_logs' =
                logAutomationExecution(prompt.id, "success", cy.integrationResults)
          /\ cycles' = [cycles EXCEPT ![c].pc = "updateCompleted"]
    /\ UNCHANGED <<now, pro_keys, scheduled_prompts, nextId, settings, env, foreign_keys, swept, settingsCalls, sentTexts, usage_count, key_usage, usageCalls, sendResults, rateLimitMap, responses,
                   isRunning, intervalId, timers, nextFire, requests, pickups,
                   notifierCalls, created>>

\* await updateScheduledPromptStatus(prompt.id, 'completed'); executed++
UpdateCompleted(c) ==
    LET cy == cycles[c]
        prompt == cy.duePrompts[cy.i]
    IN
    /\ cy.pc = "updateCompleted"
    /\ \/ /\ StorageFault
          /\ cycles' = [cycles EXCEPT ![c].pc = "logFailed"]
          /\ UNCHANGED <<scheduled_prompts, pickups>>
       \/ /\ UNCHANGED faults
          /\ scheduled_prompts' = updateScheduledPromptStatus(prompt.id, "completed")
          /\ NextPrompt(c, [cy EXCEPT !.executed = cy.executed + 1])
    /\ UNCHANGED <<now, pro_keys, nextId, automation_logs, settings, env, foreign_keys, swept, settingsCalls, sentTexts, usage_count, key_usage, usageCalls, sendResults, rateLimitMap, responses,
                   isRunning, intervalId, timers, nextFire, requests,
                   notifierCalls, created>>

\* catch (executionError): await logAutomationExecution({status: 'failed', ...})
LogFailed(c) ==
    LET cy == cycles[c]
        prompt == cy.duePrompts[cy.i]
    IN
    /\ cy.pc = "logFailed"
    /\ \/ /\ \/ StorageFault
             \/ InsertViolatesForeignKey(prompt.id) /\ UNCHANGED faults
          /\ CycleThrows(c)
          /\ UNCHANGED automation_logs
       \/ /\ UNCHANGED <<faults, pickups, isRunning, intervalId, timers, nextFire>>
          /\ ~InsertViolatesForeignKey(prompt.id)
          /\ automation_logs' = logAutomationExecution(prompt.id, "failed", NULL)
          /\ cycles' = [cycles EXCEPT ![c].pc = "updateFailed"]
    /\ UNCHANGED <<now, pro_keys, scheduled_prompts, nextId, settings, env, foreign_keys, swept, settingsCalls, sentTexts, usage_count, key_usage, usageCalls, sendResults, rateLimitMap, responses,
                   requests, notifierCalls, created>>

\* mutant: the catch block counts the failed execution as executed
UpdateFailedCountsExecuted(c) ==
    LET cy == cycles[c]
        prompt == cy.duePrompts[cy.i]
    IN
    /\ cy.pc = "updateFailed"
    /\ \/ /\ StorageFault
          /\ CycleThrows(c)
          /\ UNCHANGED scheduled_prompts
       \/ /\ UNCHANGED <<faults, isRunning, intervalId, timers, nextFire>>
          /\ scheduled_prompts' = updateScheduledPromptStatus(prompt.id, "failed")
          /\ NextPrompt(c, [cy EXCEPT !.executed = cy.executed + 1])
    /\ UNCHANGED <<now, pro_keys, nextId, automation_logs, settings, env, foreign_keys, swept, settingsCalls, sentTexts, usage_count, key_usage, usageCalls, sendResults, rateLimitMap, responses,
                   requests, notifierCalls, created>>

\* catch (executionError): await updateScheduledPromptStatus(prompt.id, 'failed');
\* failed++
UpdateFailed(c) ==
    LET cy == cycles[c]
        prompt == cy.duePrompts[cy.i]
    IN
    /\ cy.pc = "updateFailed"
    /\ \/ /\ StorageFault
          /\ CycleThrows(c)
          /\ UNCHANGED scheduled_prompts
       \/ /\ UNCHANGED <<faults, isRunning, intervalId, timers, nextFire>>
          /\ scheduled_prompts' = updateScheduledPromptStatus(prompt.id, "failed")
          /\ NextPrompt(c, [cy EXCEPT !.failed = cy.failed + 1])
    /\ UNCHANGED <<now, pro_keys, nextId, automation_logs, settings, env, foreign_keys, swept, settingsCalls, sentTexts, usage_count, key_usage, usageCalls, sendResults, rateLimitMap, responses,
                   requests, notifierCalls, created>>

----------------------------------------------------------------------------
(* Telegram message texts: a text is the sequence of its lines; a line is
   `amps` ampersands followed by `plain` other characters. *)

MAX_MESSAGE_LENGTH == 4096
SplitBuffer == 50
ContentLimit == 4000
EscapedAmpersand == 5      \* "&amp;"
DateLength == 20           \* "Jan 5, 2025, 10:30 AM"-style timestamp
TitleLength == 20
SeparatorLength == 40

TextLine(amps, plain) == [amps |-> amps, plain |-> plain]

Plain(n) == TextLine(0, n)

LineLength(l) == l.amps + l.plain

RECURSIVE TextLength(_)
TextLength(t) ==
    IF Len(t) = 1
        THEN LineLength(t[1])
        ELSE LineLength(t[1]) + 1 + TextLength(Tail(t))

\* String concatenation: the last line of a continues with the first of b.
Concat(a, b) ==
    LET last == a[Len(a)]
        joined == TextLine(last.amps + b[1].amps, last.plain + b[1].plain)
    IN SubSeq(a, 1, Len(a) - 1) \o <<joined>> \o Tail(b)

RECURSIVE ConcatAll(_)
ConcatAll(parts) ==
    IF Len(parts) = 1 THEN parts[1] ELSE Concat(parts[1], ConcatAll(Tail(parts)))

\* String.prototype.substring(0, k)
RECURSIVE Substring(_, _)
Substring(t, k) ==
    LET first == LineLength(t[1])
        kept == IF t[1].amps < k THEN t[1].amps ELSE k
    IN IF Len(t) = 1 \/ first >= k
           THEN <<TextLine(kept, (IF first < k THEN first ELSE k) - kept)>>
           ELSE <<t[1]>> \o Substring(Tail(t), k - first - 1)

cleanHtmlForTelegram(text) ==
    [i \in DOMAIN text |-> Plain(text[i].plain + EscapedAmpersand * text[i].amps)]

TruncationMarker == <<Plain(3), Plain(0), Plain(53)>>

cleanAnalysisContent(content) ==
    IF TextLength(content) > ContentLimit
        THEN Concat(Substring(content, ContentLimit), TruncationMarker)
        ELSE content

RECURSIVE KeyPointLines(_)
KeyPointLines(points) ==
    IF points = <<>>
        THEN <<Plain(0)>>
        ELSE Concat(Concat(<<Plain(3)>>, cleanHtmlForTelegram(<<points[1]>>)),
                    Concat(<<Plain(0), Plain(0)>>, KeyPointLines(Tail(points))))

Separator == <<Plain(SeparatorLength), Plain(0), Plain(0)>>

formatAnalysisAsMarkdown(analysisData) ==
    LET head == <<Plain(38), Plain(0), Plain(0)>>
        type == <<Plain(25 + TitleLength), Plain(0)>>
        generated == <<Plain(21 + DateLength), Plain(0)>>
        rule == Concat(<<Plain(0), Plain(0)>>, Separator)
        summary ==
            IF TextLength(analysisData.summary) > 0
                THEN ConcatAll(<< <<Plain(27), Plain(0)>>,
                                  cleanHtmlForTelegram(analysisData.summary),
                                  <<Plain(0), Plain(0), Plain(0)>>,
                                  Separator >>)
                ELSE <<Plain(0)>>
        content ==
            IF TextLength(analysisData.content) > 0
                THEN ConcatAll(<< <<Plain(27), Plain(0)>>,
                                  cleanHtmlForTelegram(cleanAnalysisContent(analysisData.content)),
                                  <<Plain(0), Plain(0), Plain(0)>>,
                                  Separator >>)
                ELSE <<Plain(0)>>
        keyPoints ==
            IF analysisData.keyPoints # <<>>
                THEN ConcatAll(<< <<Plain(22), Plain(0)>>,
                                  KeyPointLines(analysisData.keyPoints),
                                  <<Plain(0), Plain(0)>>,
                                  Separator >>)
                ELSE <<Plain(0)>>
        footer == <<Plain(37), Plain(50)>>
    IN ConcatAll(<<head, type, generated, rule, summary, content, keyPoints, footer>>)

\* The loop of splitLongMessage over lines[i..]; chunks and currentChunk are
\* kept as lengths (0 is the empty, falsy string).
RECURSIVE SplitLines(_, _, _, _)
SplitLines(lines, i, chunks, currentChunk) ==
    IF i > Len(lines)
        THEN IF currentChunk > 0 THEN Append(chunks, currentChunk) ELSE chunks
        ELSE LET line == LineLength(lines[i])
                 limit == MAX_MESSAGE_LENGTH - SplitBuffer
                 testChunk == currentChunk + (IF currentChunk > 0 THEN 1 ELSE 0) + line
             IN IF testChunk <= limit
                    THEN SplitLines(lines, i + 1, chunks, testChunk)
                    ELSE IF currentChunk > 0
                        THEN SplitLines(lines, i + 1, Append(chunks, currentChunk), line)
                        ELSE SplitLines(lines, i + 1, Append(chunks, limit + 3),
                                        3 + (line - limit))

splitLongMessage(message) ==
    IF TextLength(message) <= MAX_MESSAGE_LENGTH
        THEN <<TextLength(message)>>
        ELSE SplitLines(message, 1, <<>>, 0)

Summaries == {<<Plain(0)>>, <<Plain(42)>>, <<Plain(5000)>>}

Contents ==
    {<<Plain(0)>>, <<Plain(100)>>, <<Plain(4000)>>, <<TextLine(30, 3970)>>,
     <<Plain(30), Plain(0), Plain(9000)>>}

KeyPointSets == {<<>>, <<Plain(37), Plain(31)>>}

AnalysisInputs ==
    [summary : Summaries, content : Contents, keyPoints : KeyPointSets]

\* sendAnalysisToTelegram of the automation service: one sendMessage call.
SendWhole(analysisData) ==
    /\ Len(sentTexts) < MaxTexts
    /\ sentTexts' = Append(sentTexts,
            [data |-> analysisData, split |-> FALSE,
             texts |-> <<TextLength(formatAnalysisAsMarkdown(analysisData))>>])
    /\ UNCHANGED <<now, pro_keys, scheduled_prompts, nextId, automation_logs, settings, env, foreign_keys, swept, settingsCalls, usage_count, key_usage, usageCalls, sendResults, rateLimitMap, responses, isRunning, intervalId, timers, nextFire, cycles, requests, pickups, notifierCalls, faults, created>>

\* sendAnalysisToTelegram of the Telegram integration: one call per chunk.
SendChunks(analysisData) ==
    /\ Len(sentTexts) < MaxTexts
    /\ sentTexts' = Append(sentTexts,
            [data |-> analysisData, split |-> TRUE,
             texts |-> splitLongMessage(formatAnalysisAsMarkdown(analysisData))])
    /\ UNCHANGED <<now, pro_keys, scheduled_prompts, nextId, automation_logs, settings, env, foreign_keys, swept, settingsCalls, usage_count, key_usage, usageCalls, sendResults, rateLimitMap, responses, isRunning, intervalId, timers, nextFire, cycles, requests, pickups, notifierCalls, faults, created>>

----------------------------------------------------------------------------
(* Integration settings: save / delete / get.  settings[pair] is "none" when
   the table has no row of the pair, "deleted" when its row has
   is_active = FALSE, and otherwise the settings column of its active row. *)

SettingsValues == {"complete", "incomplete"}

SettingsPairs == {1} \X Channels

SettingsFrame ==
    UNCHANGED <<now, pro_keys, scheduled_prompts, nextId, automation_logs, env, foreign_keys, swept, sentTexts, usage_count, key_usage, usageCalls, sendResults, rateLimitMap, responses, isRunning, intervalId, timers, nextFire, cycles, requests, pickups, notifierCalls, faults, created>>

\* user_integration_settings is unique per (pro_key_id, integration_type):
\* an INSERT for a pair that already has a row, active or not, is rejected.
UniqueViolation(proKeyId, integrationType) ==
    settings[<<proKeyId, integrationType>>] # "none"

\* saveUserIntegrationSettings up to the answer of its SELECT
saveUserIntegrationSettings(proKeyId, integrationType, value) ==
    /\ Len(settingsCalls) < MaxSettingsCalls
    /\ settingsCalls' = Append(settingsCalls,
            [op |-> "save", pc |-> "selected", proKeyId |-> proKeyId,
             integrationType |-> integrationType, settings |-> value,
             existing |-> getUserIntegrationSettings(proKeyId, integrationType),
             found |-> settings[<<proKeyId, integrationType>>],
             result |-> NULL])
    /\ UNCHANGED settings
    /\ SettingsFrame

\* if (existing) UPDATE ... SET settings = ? WHERE pro_key_id = ? AND integration_type = ?
UpdateSettings(c) ==
    /\ c <= Len(settingsCalls)
    /\ LET call == settingsCalls[c]
           pair == <<call.proKeyId, call.integrationType>>
       IN /\ call.op = "save"
          /\ call.pc = "selected"
          /\ call.existing # NULL
          /\ settings' = [settings EXCEPT
                   ![pair] = IF @ \in SettingsValues THEN call.settings ELSE @]
          /\ settingsCalls' = [settingsCalls EXCEPT
                   ![c] = [call EXCEPT !.pc = "returned", !.result = "updated"]]
          /\ SettingsFrame

\* else INSERT INTO user_integration_settings (pro_key_id, integration_type, settings)
InsertSettings(c) ==
    /\ c <= Len(settingsCalls)
    /\ LET call == settingsCalls[c]
           pair == <<call.proKeyId, call.integrationType>>
       IN /\ call.op = "save"
          /\ call.pc = "selected"
          /\ call.existing = NULL
          /\ IF UniqueViolation(call.proKeyId, call.integrationType)
                 THEN /\ UNCHANGED settings
                      /\ settingsCalls' = [settingsCalls EXCEPT
                           ![c] = [call EXCEPT !.pc = "threw", !.result = "constraint"]]
                 ELSE /\ settings' = [settings EXCEPT ![pair] = call.settings]
                      /\ settingsCalls' = [settingsCalls EXCEPT
                           ![c] = [call EXCEPT !.pc = "returned", !.result = "created"]]
          /\ SettingsFrame

\* UPDATE user_integration_settings SET is_active = FALSE WHERE ...
deleteUserIntegrationSettings(proKeyId, integrationType) ==
    LET pair == <<proKeyId, integrationType>>
    IN /\ Len(settingsCalls) < MaxSettingsCalls
       /\ settings' = [settings EXCEPT ![pair] = IF @ = "none" THEN @ ELSE "deleted"]
       /\ settingsCalls' = Append(settingsCalls,
            [op |-> "delete", pc |-> "returned", proKeyId |-> proKeyId,
             integrationType |-> integrationType, settings |-> NULL,
             existing |-> NULL, found |-> settings[pair],
             result |-> (settings[pair] # "none")])
       /\ SettingsFrame

\* a caller reads the settings of a pair
ReadSettings(proKeyId, integrationType) ==
    /\ Len(settingsCalls) < MaxSettingsCalls
    /\ settingsCalls' = Append(settingsCalls,
            [op |-> "get", pc |-> "returned", proKeyId |-> proKeyId,
             integrationType |-> integrationType, settings |-> NULL,
             existing |-> NULL, found |-> settings[<<proKeyId, integrationType>>],
             result |-> getUserIntegrationSettings(proKeyId, integrationType)])
    /\ UNCHANGED settings
    /\ SettingsFrame

----------------------------------------------------------------------------
(* Key usage: logKeyUsage / updateKeyUsage *)

FreeUsage(u) ==
    /\ usageCalls[u].pc = "idle"
    /\ \A d \in UsageCalls : d < u => usageCalls[d].pc # "idle"

\* rows of key_usage that name the key
UsageRows(proKeyId) == {n \in 1..Len(key_usage) : key_usage[n] = proKeyId}

\* what the usage statements leave alone
UsageFrame ==
    UNCHANGED <<now, pro_keys, scheduled_prompts, nextId, automation_logs,
                settings, env, foreign_keys, swept, settingsCalls, sentTexts, sendResults, rateLimitMap,
                responses, isRunning, intervalId, timers, nextFire, cycles,
                requests, pickups, notifierCalls, created>>

\* a call of logKeyUsage or updateKeyUsage begins, at its first statement
BeginUsage(u, proKeyId, pc) ==
    /\ Len(key_usage) < MaxUsages
    /\ usage_count[proKeyId] < MaxUsages
    /\ usageCalls' = [usageCalls EXCEPT ![u] = [pc |-> pc, proKeyId |-> proKeyId]]
    /\ UNCHANGED <<usage_count, key_usage, faults>>
    /\ UsageFrame

\* validate-key handler: await logKeyUsage(result.keyData.id, ...)
logKeyUsage(u, proKeyId) ==
    /\ FreeUsage(u)
    /\ BeginUsage(u, proKeyId, "batch")

\* user-settings handler: await updateKeyUsage(keyData.id, ...)
updateKeyUsage(u, proKeyId) ==
    /\ FreeUsage(u)
    /\ BeginUsage(u, proKeyId, "updateCount")

\* the call returns or throws
EndUsage(u) == usageCalls' = [usageCalls EXCEPT ![u] = IdleUsage]

\* INSERT INTO key_usage (pro_key_id, ...)
InsertKeyUsage(proKeyId) == Append(key_usage, proKeyId)

\* UPDATE pro_keys SET usage_count = usage_count + 1 WHERE id = ?
IncrementUsageCount(proKeyId) == [usage_count EXCEPT ![proKeyId] = @ + 1]

\* logKeyUsage: await turso.batch([INSERT, UPDATE]); the batch is one
\* transaction, a rejected batch keeps neither statement and the catch block
\* falls back to the two statements on their own
Batch(u) ==
    /\ usageCalls[u].pc = "batch"
    /\ \/ /\ StorageFault
          /\ usageCalls' = [usageCalls EXCEPT ![u].pc = "fallbackInsert"]
          /\ UNCHANGED <<usage_count, key_usage>>
       \/ /\ UNCHANGED faults
          /\ key_usage' = InsertKeyUsage(usageCalls[u].proKeyId)
          /\ usage_count' = IncrementUsageCount(usageCalls[u].proKeyId)
          /\ EndUsage(u)
    /\ UsageFrame

\* logKeyUsage, fallback: await INSERT INTO key_usage
FallbackInsert(u) ==
    /\ usageCalls[u].pc = "fallbackInsert"
    /\ \/ /\ StorageFault
          /\ EndUsage(u)
          /\ UNCHANGED key_usage
       \/ /\ UNCHANGED faults
          /\ key_usage' = InsertKeyUsage(usageCalls[u].proKeyId)
          /\ usageCalls' = [usageCalls EXCEPT ![u].pc = "fallbackUpdate"]
    /\ UNCHANGED usage_count
    /\ UsageFrame

\* logKeyUsage, fallback: await UPDATE pro_keys
FallbackUpdate(u) ==
    /\ usageCalls[u].pc = "fallbackUpdate"
    /\ \/ /\ StorageFault
          /\ UNCHANGED usage_count
       \/ /\ UNCHANGED faults
          /\ usage_count' = IncrementUsageCount(usageCalls[u].proKeyId)
    /\ EndUsage(u)
    /\ UNCHANGED key_usage
    /\ UsageFrame

\* updateKeyUsage: await UPDATE pro_keys
UpdateCount(u) ==
    /\ usageCalls[u].pc = "updateCount"
    /\ \/ /\ StorageFault
          /\ EndUsage(u)
          /\ UNCHANGED usage_count
       \/ /\ UNCHANGED faults
          /\ usage_count' = IncrementUsageCount(usageCalls[u].proKeyId)
          /\ usageCalls' = [usageCalls EXCEPT ![u].pc = "insertUsage"]
    /\ UNCHANGED key_usage
    /\ UsageFrame

\* updateKeyUsage: await INSERT INTO key_usage
InsertUsage(u) ==
    /\ usageCalls[u].pc = "insertUsage"
    /\ \/ /\ StorageFault
          /\ UNCHANGED key_usage
       \/ /\ UNCHANGED faults
          /\ key_usage' = InsertKeyUsage(usageCalls[u].proKeyId)
    /\ EndUsage(u)
    /\ UNCHANGED usage_count
    /\ UsageFrame

----------------------------------------------------------------------------
(* validate-key handler *)

Answer(clientIP, status) ==
    responses' = Append(responses, [ip |-> clientIP, at |-> now,
                                    status |-> status,
                                    rateLimited |-> (status = "429")])

\* POST /api/validate-key from clientIP, with or without a key in the body
handler(clientIP, hasKey) ==
    /\ Len(responses) < MaxValidations
    /\ rateLimitMap' = isRateLimited(clientIP).map
    /\ IF isRateLimited(clientIP).limited
       THEN Answer(clientIP, "429") /\ UNCHANGED faults
       ELSE IF ~hasKey
       THEN Answer(clientIP, "400") /\ UNCHANGED faults
       ELSE \/ StorageFault /\ Answer(clientIP, "500")
            \/ UNCHANGED faults /\ Answer(clientIP, "200")
    /\ UNCHANGED <<now, pro_keys, scheduled_prompts, nextId, automation_logs,
                   settings, env, foreign_keys, swept, settingsCalls, sentTexts, usage_count, key_usage, usageCalls, sendResults, isRunning,
                   intervalId, timers, nextFire, cycles, requests, pickups,
                   notifierCalls, created>>

\* mutant: the clean-up deletes entries once half a window has passed
CleanupRateLimitsEager ==
    /\ \E ip \in ClientIPs :
        /\ rateLimitMap[ip] # NoEntry
        /\ (now - rateLimitMap[ip].firstRequest) * 2 > RATE_LIMIT_WINDOW
    /\ rateLimitMap' = [ip \in ClientIPs |->
            IF rateLimitMap[ip] # NoEntry
               /\ (now - rateLimitMap[ip].firstRequest) * 2 > RATE_LIMIT_WINDOW
            THEN NoEntry ELSE rateLimitMap[ip]]
    /\ swept' = swept \cup {ip \in ClientIPs :
            /\ rateLimitMap[ip] # NoEntry
            /\ (now - rateLimitMap[ip].firstRequest) * 2 > RATE_LIMIT_WINDOW}
    /\ UNCHANGED <<now, pro_keys, scheduled_prompts, nextId, automation_logs,
                   settings, env, foreign_keys, settingsCalls, sentTexts, usage_count, key_usage, usageCalls, sendResults, responses,
                   isRunning, intervalId, timers, nextFire, cycles, requests,
                   pickups, notifierCalls, faults, created>>

\* the periodic clean-up of rateLimitMap finds entries to delete
CleanupRateLimits ==
    /\ \E ip \in ClientIPs :
        /\ rateLimitMap[ip] # NoEntry
        /\ now - rateLimitMap[ip].firstRequest > RATE_LIMIT_WINDOW * 2
    /\ rateLimitMap' = [ip \in ClientIPs |->
            IF now - rateLimitMap[ip].firstRequest > RATE_LIMIT_WINDOW * 2
            THEN NoEntry ELSE rateLimitMap[ip]]
    /\ swept' = swept \cup {ip \in ClientIPs :
            /\ rateLimitMap[ip] # NoEntry
            /\ now - rateLimitMap[ip].firstRequest > RATE_LIMIT_WINDOW * 2}
    /\ UNCHANGED <<now, pro_keys, scheduled_prompts, nextId, automation_logs,
                   settings, env, foreign_keys, settingsCalls, sentTexts, usage_count, key_usage, usageCalls, sendResults, responses,
                   isRunning, intervalId, timers, nextFire, cycles, requests,
                   pickups, notifierCalls, faults, created>>

\* half of the rate-limit window, in ms
HalfWindow == RATE_LIMIT_WINDOW \div 2

\* half a window passes, or one millisecond past a whole number of windows
ElapseWindow ==
    /\ \E step \in {1, HalfWindow} :
        /\ step = 1 => (now > 0 /\ now % RATE_LIMIT_WINDOW = 0)
        /\ now + step <= MaxRateSteps * HalfWindow + 1
        /\ now' = now + step
    /\ UNCHANGED <<pro_keys, scheduled_prompts, nextId, automation_logs,
                   settings, env, foreign_keys, swept, settingsCalls, sentTexts, usage_count, key_usage, usageCalls, sendResults, rateLimitMap,
                   responses, isRunning, intervalId, timers, nextFire, cycles,
                   requests, pickups, notifierCalls, faults, created>>

----------------------------------------------------------------------------
(* Schedule endpoints *)

\* validateProKey: the key exists, is active (and not expired)
validateProKey(key) == key \in ProKeys /\ pro_keys[key] = "active"

\* offsets of the requested scheduledTime from the instant of the request
Delays == {-checkInterval, 0, checkInterval}

\* keys a request may carry: the issued ones and one that was never issued
RequestKeys == ProKeys \cup {0}

FreeRequest(q) ==
    /\ requests[q].pc = "idle"
    /\ \A d \in Requests : d < q => requests[d].pc # "idle"

Respond(q, response) ==
    requests' = [requests EXCEPT ![q] = [IdleRequest EXCEPT !.response = response]]

\* mutant: the time check lets scheduledTime = now through
createScheduleAcceptsNow(q, key, delay, integrations, fieldsPresent, userTimezone) ==
    /\ FreeRequest(q)
    /\ IF ~fieldsPresent
       THEN Respond(q, "400 missing fields") /\ UNCHANGED faults
       ELSE \/ StorageFault /\ Respond(q, "500")
            \/ /\ UNCHANGED faults
               /\ IF ~validateProKey(key) THEN Respond(q, "500")
                  ELSE IF now + delay < now
                       THEN Respond(q, "400 not in the future")
                  ELSE requests' = [requests EXCEPT ![q] =
                          [pc |-> "checkLimit", proKeyId |-> key,
                           scheduledTime |-> now + delay,
                           integrations |-> integrations, currentCount |-> 0,
                           response |-> NULL,
                           userTimezone |-> userTimezone,
                           displayTime |->
                              formatDisplayTime(now + delay, userTimezone)]]
    /\ UNCHANGED <<now, pro_keys, scheduled_prompts, nextId, automation_logs,
                   settings, env, foreign_keys, swept, settingsCalls, sentTexts, usage_count, key_usage, usageCalls, sendResults, rateLimitMap, responses, isRunning, intervalId, timers, nextFire,
                   cycles, pickups, notifierCalls, created>>

\* POST /api/scheduled-prompts, up to the call of createScheduledPrompt
createSchedule(q, key, delay, integrations, fieldsPresent, userTimezone) ==
    /\ FreeRequest(q)
    /\ IF ~fieldsPresent
       THEN Respond(q, "400 missing fields") /\ UNCHANGED faults
       ELSE \/ StorageFault /\ Respond(q, "500")
            \/ /\ UNCHANGED faults
               /\ IF ~validateProKey(key) THEN Respond(q, "500")
                  ELSE IF now + delay <= now
                       THEN Respond(q, "400 not in the future")
                  ELSE requests' = [requests EXCEPT ![q] =
                          [pc |-> "checkLimit", proKeyId |-> key,
                           scheduledTime |-> now + delay,
                           integrations |-> integrations, currentCount |-> 0,
                           response |-> NULL,
                           userTimezone |-> userTimezone,
                           displayTime |->
                              formatDisplayTime(now + delay, userTimezone)]]
    /\ UNCHANGED <<now, pro_keys, scheduled_prompts, nextId, automation_logs,
                   settings, env, foreign_keys, swept, settingsCalls, sentTexts, usage_count, key_usage, usageCalls, sendResults, rateLimitMap, responses, isRunning, intervalId, timers, nextFire,
                   cycles, pickups, notifierCalls, created>>

\* createScheduledPrompt: await checkUserScheduleLimit(proKeyId)
CheckLimit(q) ==
    /\ requests[q].pc = "checkLimit"
    /\ \/ StorageFault /\ Respond(q, "500")
       \/ /\ UNCHANGED faults
          /\ LET limitCheck == checkUserScheduleLimit(requests[q].proKeyId) IN
             IF limitCheck.canSchedule
             THEN requests' = [requests EXCEPT ![q].pc = "insert",
                                   ![q].currentCount = limitCheck.currentCount]
             ELSE Respond(q, "400 SCHEDULE_LIMIT_EXCEEDED")
    /\ UNCHANGED <<now, pro_keys, scheduled_prompts, nextId, automation_logs,
                   settings, env, foreign_keys, swept, settingsCalls, sentTexts, usage_count, key_usage, usageCalls, sendResults, rateLimitMap, responses, isRunning, intervalId, timers, nextFire,
                   cycles, pickups, notifierCalls, created>>

\* createScheduledPrompt: await INSERT INTO scheduled_prompts
Insert(q) ==
    /\ requests[q].pc = "insert"
    /\ \/ /\ StorageFault
          /\ Respond(q, "500")
          /\ UNCHANGED <<scheduled_prompts, nextId, pickups, created>>
       \/ /\ UNCHANGED faults
          /\ created < MaxCreated
          /\ scheduled_prompts' = scheduled_prompts \cup
                {[id |-> nextId, pro_key_id |-> requests[q].proKeyId,
                  scheduled_time |-> requests[q].scheduledTime,
                  status |-> "pending", execution_count |-> 0,
                  last_execution |-> NULL,
                  prompt_title |-> "title", prompt_content |-> "content",
                  user_timezone |-> requests[q].userTimezone,
                  display_time |-> requests[q].displayTime,
                  integrations |-> requests[q].integrations]}
          /\ nextId' = nextId + 1
          /\ created' = created + 1
          /\ pickups' = [id \in DOMAIN pickups \cup {nextId} |->
                            IF id = nextId THEN 0 ELSE pickups[id]]
          /\ Respond(q, "201")
    /\ UNCHANGED <<now, pro_keys, automation_logs, settings, env, foreign_keys, swept, settingsCalls, sentTexts, usage_count, key_usage, usageCalls, sendResults, rateLimitMap, responses, isRunning,
                   intervalId, timers, nextFire, cycles, notifierCalls>>

\* mutant: the DELETE statement does not name the owner
deleteScheduledPromptAnyOwner(scheduleId, proKeyId) ==
    {r \in scheduled_prompts : r.id # scheduleId}

\* DELETE FROM scheduled_prompts WHERE id = ? AND pro_key_id = ?
deleteScheduledPrompt(scheduleId, proKeyId) ==
    {r \in scheduled_prompts : ~(r.id = scheduleId /\ r.pro_key_id = proKeyId)}

\* DELETE /api/scheduled-prompts/:scheduleId/:proKey; the answer is kept with
\* the owner id the key resolved to
deleteSchedule(q, scheduleId, key) ==
    /\ FreeRequest(q)
    /\ \/ /\ StorageFault
          /\ Respond(q, "500")
          /\ UNCHANGED scheduled_prompts
       \/ /\ UNCHANGED faults
          /\ IF \/ ~validateProKey(key)
                \/ DeleteViolatesForeignKey(
                        scheduled_prompts \ deleteScheduledPrompt(scheduleId, key))
             THEN Respond(q, "500") /\ UNCHANGED scheduled_prompts
             ELSE LET remaining == deleteScheduledPrompt(scheduleId, key)
                      deleted == remaining # scheduled_prompts
                  IN /\ scheduled_prompts' = remaining
                     /\ requests' = [requests EXCEPT ![q] =
                            [IdleRequest EXCEPT
                                !.response = IF deleted THEN "200" ELSE "404",
                                !.proKeyId = key]]
    /\ UNCHANGED <<now, pro_keys, nextId, automation_logs, settings, env, foreign_keys, swept, settingsCalls, sentTexts, usage_count, key_usage, usageCalls, sendResults, rateLimitMap, responses,
                   isRunning, intervalId, timers, nextFire, cycles,
                   pickups, notifierCalls, created>>

\* an operator sets pro_keys.status of a key to something other than 'active'
RevokeKey(key) ==
    /\ pro_keys[key] = "active"
    /\ pro_keys' = [pro_keys EXCEPT ![key] = "inactive"]
    /\ UNCHANGED <<now, scheduled_prompts, nextId, automation_logs, settings,
                   env, foreign_keys, swept, settingsCalls, sentTexts, usage_count, key_usage, usageCalls, sendResults, rateLimitMap, responses, isRunning, intervalId, timers, nextFire, cycles,
                   requests, pickups, notifierCalls, faults, created>>

----------------------------------------------------------------------------
(* Specifications *)

SchedulerNext ==
    \/ Start
    \/ Stop
    \/ TimerTick
    \/ ElapseInterval
    \/ manualExecute

CycleNext ==
    \/ \E c \in Cycles : GetDue(c)
    \/ \E c \in Cycles : Telegram(c)
    \/ \E c \in Cycles : Discord(c)
    \/ \E c \in Cycles : LogSuccess(c)
    \/ \E c \in Cycles : UpdateCompleted(c)
    \/ \E c \in Cycles : LogFailed(c)
    \/ \E c \in Cycles : UpdateFailed(c)

CreateNext ==
    \/ \E q \in Requests, key \in RequestKeys, delay \in Delays,
          fieldsPresent \in BOOLEAN :
            createSchedule(q, key, delay, NoIntegrations, fieldsPresent,
                           PresetTimezone)
    \/ \E q \in Requests : CheckLimit(q)
    \/ \E q \in Requests : Insert(q)

DeleteNext ==
    \E q \in Requests, scheduleId \in (nextId - DeleteWindow)..nextId,
       key \in RequestKeys :
        deleteSchedule(q, scheduleId, key)

RevokeNext == \E key \in ProKeys : RevokeKey(key)

\* the poller and the executions it drives, over a schedule already stored
Next == SchedulerNext \/ CycleNext

Spec == Init /\ [][Next]_vars

\* schedule creation and deletion against the quota
NextQuota == CreateNext \/ DeleteNext

SpecQuota == InitQuota /\ [][NextQuota]_vars

\* manual poll cycles over stores of every kind of schedule, at instants
\* around a second boundary
NextDue == manualExecute \/ CycleNext \/ Elapse \/ RevokeNext

SpecDue == InitDue /\ [][NextDue]_vars

\* deletion requests for the schedules in the store
DeleteStored ==
    \E q \in Requests, r \in scheduled_prompts, key \in ProKeys :
        deleteSchedule(q, r.id, key)

\* executions, deletions and reads of the log over days
NextLogs == manualExecute \/ CycleNext \/ ElapseRetention \/ DeleteStored

\* time passes, polls keep coming and every awaited call settles
FairLogs ==
    /\ WF_vars(ElapseRetention)
    /\ WF_vars(manualExecute)
    /\ \A c \in Cycles :
        /\ WF_vars(GetDue(c))
        /\ WF_vars(Telegram(c))
        /\ WF_vars(Discord(c))
        /\ WF_vars(LogSuccess(c))
        /\ WF_vars(UpdateCompleted(c))
        /\ WF_vars(LogFailed(c))
        /\ WF_vars(UpdateFailed(c))

SpecLogs == InitLogs /\ [][NextLogs]_vars /\ FairLogs

\* manual polls of two due schedules while their owners delete them
NextCount == manualExecute \/ CycleNext \/ DeleteStored

SpecCount == InitCount /\ [][NextCount]_vars

\* the poller and its executions in a process that a signal may end
NextShutdown == SchedulerNext \/ CycleNext \/ Shutdown

SpecShutdown == Init /\ [][NextShutdown]_vars

\* creation requests of key 1 for the next period, in any time zone, until
\* one has stored its schedule
CreateZoned ==
    \/ /\ created = 0
       /\ \E q \in Requests, userTimezone \in Timezones :
            createSchedule(q, 1, checkInterval, NoIntegrations, TRUE,
                           userTimezone)
    \/ \E q \in Requests : CheckLimit(q)
    \/ \E q \in Requests : Insert(q)

\* deletion requests of the owners for their schedules
DeleteOwn ==
    \E q \in Requests, r \in scheduled_prompts :
        deleteSchedule(q, r.id, r.pro_key_id)

\* a manual run requested while no cycle is in flight
manualExecuteAlone ==
    /\ \A c \in Cycles : cycles[c].pc = "idle"
    /\ manualExecute

\* every operation that writes scheduled_prompts: creation, execution and
\* deletion, over one period
NextFrame ==
    CreateZoned \/ manualExecuteAlone \/ CycleNext \/ DeleteOwn \/ ElapseInterval

SpecFrame == InitFrame /\ [][NextFrame]_vars

\* validations of the two keys recorded through either function
NextUsage ==
    \/ \E u \in UsageCalls, proKeyId \in ProKeys : logKeyUsage(u, proKeyId)
    \/ \E u \in UsageCalls, proKeyId \in ProKeys : updateKeyUsage(u, proKeyId)
    \/ \E u \in UsageCalls : Batch(u)
    \/ \E u \in UsageCalls : FallbackInsert(u)
    \/ \E u \in UsageCalls : FallbackUpdate(u)
    \/ \E u \in UsageCalls : UpdateCount(u)
    \/ \E u \in UsageCalls : InsertUsage(u)

SpecUsage == InitLive /\ [][NextUsage]_vars

\* analyses sent to Telegram through either notifier
NextText ==
    \/ \E analysisData \in AnalysisInputs : SendWhole(analysisData)
    \/ \E analysisData \in AnalysisInputs : SendChunks(analysisData)

SpecText == InitLive /\ [][NextText]_vars

\* the settings functions called for the two channels of one owner
NextSettings ==
    \/ \E pair \in SettingsPairs, value \in SettingsValues :
            saveUserIntegrationSettings(pair[1], pair[2], value)
    \/ \E c \in 1..MaxSettingsCalls : UpdateSettings(c)
    \/ \E c \in 1..MaxSettingsCalls : InsertSettings(c)
    \/ \E pair \in SettingsPairs : deleteUserIntegrationSettings(pair[1], pair[2])
    \/ \E pair \in SettingsPairs : ReadSettings(pair[1], pair[2])

SpecSettings == InitLive /\ [][NextSettings]_vars

\* manual runs over two due schedules while the store rejects calls
NextOutage == manualExecute \/ CycleNext

SpecOutage == InitOutage /\ [][NextOutage]_vars

\* validation requests of two clients over a few rate-limit windows
NextRate ==
    \/ \E clientIP \in ClientIPs, hasKey \in BOOLEAN : handler(clientIP, hasKey)
    \/ CleanupRateLimits
    \/ ElapseWindow

SpecRate == InitLive /\ [][NextRate]_vars

\* the notifiers called on their own with every kind of argument and remote
NextSend == CallTelegram \/ CallDiscord

SpecSend == InitLive /\ [][NextSend]_vars

\* the running poller alone: start(), its timer and the cycles they begin
NextLive == Start \/ TimerTick \/ CycleNext

\* initializeScheduler() calls start() on load, setInterval keeps firing, and
\* every awaited storage or network call settles
FairLive ==
    /\ WF_vars(Start)
    /\ WF_vars(TimerTick)
    /\ \A c \in Cycles :
        /\ WF_vars(GetDue(c))
        /\ WF_vars(Telegram(c))
        /\ WF_vars(Discord(c))
        /\ WF_vars(LogSuccess(c))
        /\ WF_vars(UpdateCompleted(c))
        /\ WF_vars(LogFailed(c))
        /\ WF_vars(UpdateFailed(c))

SpecLive == InitLive /\ [][NextLive]_vars /\ FairLive

----------------------------------------------------------------------------
(* Properties *)

InFlight == {c \in Cycles : cycles[c].pc # "idle"}

\* the schedule that cycle c is executing
Current(c) == cycles[c].duePrompts[cycles[c].i]

Executing == {c \in Cycles : cycles[c].pc \notin {"idle", "getDue"}}

LogsOf(scheduleId) ==
    {n \in 1..Len(automation_logs) :
        automation_logs[n].scheduled_prompt_id = scheduleId}

\* C1: with one scheduler (timer cycles and manual cycles), no schedule id is
\* ever picked up for execution more than once.
C1_AtMostOneExecution ==
    \A id \in DOMAIN pickups : pickups[id] <= 1

\* C2: at most one cycle started by the scheduler's timer (or by start()) is
\* in progress at any instant.
C2_TimerCyclesNeverOverlap ==
    Cardinality({c \in InFlight : cycles[c].origin = "timer"}) <= 1

\* C3: once no cycle is in progress, every schedule has exactly as many log
\* entries as it had pick-ups: one entry per pick-up, on every path.
C3_OneLogPerPickup ==
    InFlight = {} =>
        \A id \in DOMAIN pickups : Cardinality(LogsOf(id)) = pickups[id]

\* C7: result generation (building analysisData) cannot throw, so no event of
\* an execution - a channel failure, a storage error - marks a schedule failed.
C7_FailedOnlyByGeneration ==
    \A r \in scheduled_prompts : r.status # "failed"

\* C8: channel outcomes never divert an execution from its success path: the
\* catch block is entered only after a storage call has rejected; the log entry
\* written before the status update has status success and carries the
\* channel outcomes; and while no storage call has rejected, every log entry
\* is a success entry and every schedule whose executions are over is
\* completed, whatever the channels did.
C8_ChannelOutcomeNotFatal ==
    /\ \A c \in Executing :
        /\ cycles[c].pc \in {"logFailed", "updateFailed"} => faults > 0
        /\ cycles[c].pc = "updateCompleted" =>
              \E n \in LogsOf(Current(c).id) :
                  /\ automation_logs[n].status = "success"
                  /\ automation_logs[n].integration_results =
                        cycles[c].integrationResults
    /\ faults = 0 =>
        /\ \A n \in 1..Len(automation_logs) :
              automation_logs[n].status = "success"
        /\ \A r \in scheduled_prompts :
              (pickups[r.id] > 0 /\ \A c \in Executing : Current(c).id # r.id)
                  => r.status = "completed"

\* a log entry records a channel failure and its schedule is completed
C8_Witness ==
    /\ faults = 0
    /\ \E r \in scheduled_prompts :
        /\ r.status = "completed"
        /\ \E n \in LogsOf(r.id) :
              /\ automation_logs[n].integration_results.telegramError = "send failed"
              /\ automation_logs[n].integration_results.discordError = "not configured"

\* the recorded error of a channel in an integration-results object
ErrorOf(results, channel) ==
    IF channel = "telegram" THEN results.telegramError ELSE results.discordError

\* a cycle whose execution of r has finished the step of the channel
PastChannel(c, channel) ==
    IF channel = "telegram"
    THEN cycles[c].pc \in {"discord", "logSuccess", "updateCompleted"}
    ELSE cycles[c].pc \in {"logSuccess", "updateCompleted"}

\* the owner has a user_integration_settings row with is_active = TRUE
HasActiveSettings(proKeyId, channel) ==
    settings[<<proKeyId, channel>>] \in {"complete", "incomplete"}

C10_TerminalStatesStay ==
    [][\A r \in scheduled_prompts :
            r.status \in {"completed", "failed"} => r \in scheduled_prompts']_vars

\* the schedules picked up by a step of cycle c that ends its due query
PickedUp(c) == {cycles[c].duePrompts[n] : n \in 1..Len(cycles[c].duePrompts)}'

\* cycle c's due query returns in this step
DueQueryReturns(c) ==
    /\ cycles[c].pc = "getDue"
    /\ cycles'[c].pc # "getDue"
    /\ faults' = faults

\* C4: the due query returns exactly the pending schedules of
\* active keys whose scheduledAt is at or before the poll instant, each once.
C4_PicksExactlyDue ==
    [][\A c \in Cycles : DueQueryReturns(c) =>
          /\ PickedUp(c) = {r \in scheduled_prompts :
                              /\ r.status = "pending"
                              /\ r.scheduled_time <= now
                              /\ pro_keys[r.pro_key_id] = "active"}
          /\ Len(cycles'[c].duePrompts) = Cardinality(PickedUp(c))]_vars

\* What the due query does return: the pending schedules of active keys whose
\* scheduled_time lies before the end of the clock second of the poll, each
\* once.
DueQueryComparesWholeSeconds ==
    [][\A c \in Cycles : DueQueryReturns(c) =>
          /\ PickedUp(c) = {r \in scheduled_prompts :
                              /\ r.status = "pending"
                              /\ r.scheduled_time < (now \div 1000 + 1) * 1000
                              /\ pro_keys[r.pro_key_id] = "active"}
          /\ Len(cycles'[c].duePrompts) = Cardinality(PickedUp(c))]_vars

\* a creation request passes its limit check in this step
CheckReturns(q) ==
    /\ requests[q].pc = "checkLimit"
    /\ requests'[q].pc # "checkLimit"
    /\ faults' = faults

\* number of the owner's records with status pending or completed in a table
LiveCountIn(rows, proKeyId) ==
    Cardinality({r \in rows : /\ r.pro_key_id = proKeyId
                              /\ r.status \in {"pending", "completed"}})

LiveCount(proKeyId) == LiveCountIn(scheduled_prompts, proKeyId)

\* C5: a creation whose limit check finds 10 live records of the owner is
\* answered SCHEDULE_LIMIT_EXCEEDED and inserts nothing; one whose check finds
\* fewer (for instance after a deletion) goes on to insert, and its insert
\* adds one pending record of that owner and answers 201.
C5_QuotaEnforced ==
    [][\A q \in Requests :
        /\ CheckReturns(q) =>
              IF LiveCount(requests[q].proKeyId) >= maxSchedules
              THEN /\ requests'[q].pc = "idle"
                   /\ requests'[q].response = "400 SCHEDULE_LIMIT_EXCEEDED"
                   /\ scheduled_prompts' = scheduled_prompts
              ELSE requests'[q].pc = "insert"
        /\ (requests[q].pc = "insert" /\ requests'[q].pc = "idle"
                /\ faults' = faults) =>
              /\ requests'[q].response = "201"
              /\ LiveCountIn(scheduled_prompts', requests[q].proKeyId) =
                    LiveCount(requests[q].proKeyId) + 1]_vars

\* an 11th creation was refused, and after a deletion a later creation of the
\* same owner was accepted
C5_Witness ==
    /\ \E q \in Requests : requests[q].response = "400 SCHEDULE_LIMIT_EXCEEDED"
    /\ \E q \in Requests : requests[q].response = "201"
    /\ nextId = maxSchedules + 2
    /\ LiveCount(1) = maxSchedules

\* C6 as claimed: no owner ever has more than 10 live records.
C6_AtMostTenLive ==
    \A key \in ProKeys : LiveCount(key) <= maxSchedules

\* C6 as amended: every insert is made by a request whose limit check counted
\* fewer than 10 live records, so an insert leaves the owner with at most 10
\* live records unless the owner's live count grew between that request's
\* check and its insert (creations running concurrently can exceed 10).
C6_InsertWithinLimitUnlessRaced ==
    [][\A q \in Requests :
        (requests[q].pc = "insert" /\ scheduled_prompts' # scheduled_prompts) =>
            /\ requests[q].currentCount < maxSchedules
            /\ LiveCount(requests[q].proKeyId) <= requests[q].currentCount
                  => LiveCountIn(scheduled_prompts', requests[q].proKeyId)
                        <= maxSchedules]_vars

\* an insert brought an owner to exactly 10 live records
C6_Witness ==
    /\ LiveCount(1) = maxSchedules
    /\ nextId = maxSchedules + 1
    /\ \E q \in Requests : requests[q].response = "201"

\* C11: while a cycle executes a schedule, every schedule that precedes it in
\* the cycle's due list has a scheduledAt that is not later, and already has
\* its log entry.
C11_AscendingWithinCycle ==
    \A c \in Executing : \A j \in 1..(cycles[c].i - 1) :
        /\ cycles[c].duePrompts[j].scheduled_time <= Current(c).scheduled_time
        /\ LogsOf(cycles[c].duePrompts[j].id) # {}

\* a cycle executes its second schedule, whose scheduledAt is later than the
\* first one's
C11_Witness ==
    \E c \in Executing :
        /\ cycles[c].i = 2
        /\ cycles[c].duePrompts[1].scheduled_time < Current(c).scheduled_time
        /\ LogsOf(cycles[c].duePrompts[1].id) # {}

\* polls still to come: cycles that have not run their due query yet, and the
\* timer ticks left on the clock
PollsAhead ==
    Cardinality({c \in Cycles : cycles[c].pc = "getDue"})
    + (IF timers > 0 /\ nextFire <= MaxIntervals * checkInterval
       THEN (MaxIntervals * checkInterval - nextFire) \div checkInterval + 1
       ELSE 0)

\* schedule id is pending, its scheduledAt has been reached and its owner's
\* key is active
DueAndPending(id) ==
    \E r \in scheduled_prompts :
        /\ r.id = id
        /\ r.status = "pending"
        /\ r.scheduled_time <= now
        /\ pro_keys[r.pro_key_id] = "active"

C13_ThrowLeavesSchedulerRunning ==
    [][/\ \A c \in InFlight :
            (cycles'[c].pc = "idle" /\ faults' > faults) =>
                /\ isRunning' = isRunning
                /\ intervalId' = intervalId
                /\ timers' = timers
                /\ nextFire' = nextFire
       /\ (timers > 0 /\ now' # now) =>
            \E c \in Cycles : /\ cycles[c].pc = "idle"
                              /\ cycles'[c].pc = "getDue"
                              /\ cycles'[c].origin = "timer"]_vars

\* the cycle begun by start() threw on its due query (nothing was picked up)
\* and the scheduler is running with its timer
C13_Witness ==
    /\ faults = 1
    /\ pickups[1] = 0
    /\ InFlight = {}
    /\ isRunning
    /\ intervalId # NULL
    /\ timers = 1
    /\ now = 0

\* a cycle of the timer (or of start()) begins in this step
TimerCycleBegins ==
    \E c \in Cycles : /\ cycles[c].pc = "idle"
                      /\ cycles'[c].pc = "getDue"
                      /\ cycles'[c].origin = "timer"

\* C14: every step that leaves the scheduler Stopped leaves it without timer
\* handle and without timer; and while it is Stopped and stays Stopped (stop()
\* called again, or anything else but start()), the timer state does not
\* change and no timer-driven cycle begins.
C14_StopIdempotent ==
    [][/\ ~isRunning' => (intervalId' = NULL /\ timers' = 0)
       /\ (~isRunning /\ ~isRunning') =>
            /\ UNCHANGED <<intervalId, timers, nextFire>>
            /\ ~TimerCycleBegins]_vars

\* stop() was called on a running scheduler: the cycle begun by start() is
\* still in progress and no timer is left
C14_Witness ==
    /\ ~isRunning
    /\ intervalId = NULL
    /\ timers = 0
    /\ \E c \in InFlight : cycles[c].origin = "timer"

\* C15: at most one timer exists, isRunning is true exactly when a timer
\* handle is held and exactly when the timer exists; and while the scheduler
\* is Running and stays Running (start() called again, or anything else but
\* stop()), no timer is added and a timer-driven cycle begins only when the
\* period elapses.
C15_SingleTimer ==
    /\ [](/\ timers <= 1
          /\ isRunning <=> intervalId # NULL
          /\ isRunning <=> timers = 1)
    /\ [][(isRunning /\ isRunning') =>
            /\ UNCHANGED <<intervalId, timers>>
            /\ TimerCycleBegins => now' = nextFire]_vars

\* the single timer has fired while the cycle begun by start() was in progress
C15_Witness ==
    /\ isRunning
    /\ intervalId # NULL
    /\ timers = 1
    /\ Cardinality({c \in InFlight : cycles[c].origin = "timer"}) = 2

\* request slot q receives an answer in this step
Answered(q) == requests'[q] # requests[q] /\ requests'[q].pc = "idle"

\* C17: a deletion answered 200 has removed exactly one record, owned by the
\* owner the request's key resolved to; a deletion answered 404 (no record with
\* that id and owner) has changed no record; and no record disappears without
\* a deletion answered 200.
C17_DeleteOnlyOwn ==
    [][/\ \A q \in Requests :
            /\ (Answered(q) /\ requests'[q].response = "200") =>
                  \E r \in scheduled_prompts :
                      /\ r.pro_key_id = requests'[q].proKeyId
                      /\ scheduled_prompts' = scheduled_prompts \ {r}
            /\ (Answered(q) /\ requests'[q].response = "404") =>
                  scheduled_prompts' = scheduled_prompts
       /\ (scheduled_prompts \ scheduled_prompts' # {}) =>
            \E q \in Requests : requests'[q].response = "200"]_vars

\* one deletion removed a record of its owner and a deletion by the other
\* owner was answered 404, the record it named still being there
C17_Witness ==
    /\ \E q \in Requests :
        requests[q].response = "200" /\ requests[q].proKeyId = 1
    /\ \E q \in Requests :
        requests[q].response = "404" /\ requests[q].proKeyId = 2
    /\ Cardinality(scheduled_prompts) = maxSchedules - 2
    /\ \E r \in scheduled_prompts : r.id = nextId - 2

\* the answers with which createSchedule and createScheduledPrompt refuse
Refusals ==
    {"400 missing fields", "400 not in the future", "500",
     "400 SCHEDULE_LIMIT_EXCEEDED"}

ScheduleIds == {r.id : r \in PresetRows(NoIntegrations)}

\* C16: at every instant, the execution history of every schedule holds no
\* entry older than the retention period, and the execution count of the
\* listing counts no such entry.
C16_NoExpiredLogRead ==
    /\ \A id \in ScheduleIds :
        LET history == getAutomationExecutionHistory(id, HistoryLimit) IN
        \A n \in 1..Len(history) : ~Expired(history[n])
    /\ \A key \in ProKeys : \A row \in getUserScheduledPrompts(key) :
        row.total_executions =
            Cardinality({n \in LogsOf(row.id) : ~Expired(automation_logs[n])})

\* C18: once a schedule id has no record any more, eventually no log row
\* references it.
C18_NoOrphanLogsForever ==
    \A id \in ScheduleIds :
        []((\A r \in scheduled_prompts : r.id # id) => <>(LogsOf(id) = {}))

\* the status update awaited by cycle c at position pc settles without a
\* rejection in this step
UpdateSettles(c, pc) ==
    /\ cycles[c].pc = pc
    /\ cycles'[c] # cycles[c]
    /\ faults' = faults

\* the counts cycle c holds after this step; when the step ends the loop they
\* are the counts the call returns
CountsAfter(c, executed, failed) ==
    IF cycles'[c] = IdleCycle
    THEN executed + failed = Len(cycles[c].duePrompts)
    ELSE /\ cycles'[c].executed = executed
         /\ cycles'[c].failed = failed
         /\ cycles'[c].i = cycles[c].i + 1
         /\ cycles'[c].duePrompts = cycles[c].duePrompts

\* the record of schedule id, if there is one, gets the status in this step
RecordGets(id, status) ==
    \A r \in scheduled_prompts :
        r.id = id => \E x \in scheduled_prompts' : x.id = id /\ x.status = status

C21_NotifiersNeverThrow ==
    \A n \in 1..Len(sendResults) :
        LET call == sendResults[n] IN
        /\ ~call.result.thrown
        /\ call.result.success <=> (call.arguments /\ call.remote = "ok")
        /\ ~call.result.success => call.result.error # NULL
        /\ call.result.success => call.result.error = NULL

\* a call without its settings argument and a call that met a remote failure
\* have both returned
C21_Witness ==
    \E m, n \in 1..Len(sendResults) :
        /\ ~sendResults[m].arguments
        /\ sendResults[n].arguments /\ sendResults[n].remote = "not ok"
        /\ sendResults[m].channel # sendResults[n].channel

\* C22 (as stated): of two limit checks for the same owner with no insert in
\* between, the later returns the count the earlier returned.
C22_SameCountWithoutInsert ==
    [][\A p, q \in Requests :
        (/\ created = 0
         /\ requests[p].pc = "insert"
         /\ requests[q].proKeyId = requests[p].proKeyId
         /\ CheckReturns(q)
         /\ requests'[q].pc = "insert")
        => requests'[q].currentCount = requests[p].currentCount]_vars

\* C22 (amended): a limit check changes no record; it returns the number of
\* the owner's records that are pending or completed at the time of the call
\* and remaining = max(0, 10 - that number); so a later check returns what an
\* earlier one returned whenever the owner's live records are as many as at
\* the earlier call.
C22_FreshCountReadOnly ==
    /\ [](\A key \in ProKeys :
            /\ checkUserScheduleLimit(key).currentCount = LiveCount(key)
            /\ checkUserScheduleLimit(key).remaining =
                    Max(0, maxSchedules - LiveCount(key)))
    /\ [][\A q \in Requests : CheckReturns(q) =>
            /\ scheduled_prompts' = scheduled_prompts
            /\ requests'[q].pc = "insert" =>
                /\ requests'[q].currentCount = LiveCount(requests[q].proKeyId)
                /\ \A p \in Requests :
                    (/\ requests[p].pc = "insert"
                     /\ requests[p].proKeyId = requests[q].proKeyId
                     /\ requests[p].currentCount = LiveCount(requests[p].proKeyId))
                    => requests'[q].currentCount = requests[p].currentCount]_vars

\* two checks for owner 1 have returned the same count, nothing having been
\* inserted or deleted in between
C22_Witness ==
    /\ \A q \in Requests :
        /\ requests[q].pc = "insert"
        /\ requests[q].proKeyId = 1
        /\ requests[q].currentCount = maxSchedules - 1
    /\ created = 0
    /\ LiveCount(1) = maxSchedules - 1

\* answers given to clientIP
AnswersTo(clientIP) == {k \in 1..Len(responses) : responses[k].ip = clientIP}

\* answers that admitted a request of clientIP since instant t, among the
\* first k answers
AdmittedSince(clientIP, t, k) ==
    {j \in AnswersTo(clientIP) :
        j <= k /\ responses[j].at >= t /\ ~responses[j].rateLimited}

\* the handler answers a request of clientIP in this step
Handles(clientIP) ==
    /\ Len(responses') = Len(responses) + 1
    /\ responses'[Len(responses')].ip = clientIP

\* the start of the window of clientIP that is running after the first k
\* answers, read from the answers alone: a window starts with the first
\* request of the IP and with every request that comes more than
\* RATE_LIMIT_WINDOW after the start of the window before it (-1: no window)
RECURSIVE WindowStart(_, _)
WindowStart(clientIP, k) ==
    IF k = 0 THEN -1
    ELSE LET before == WindowStart(clientIP, k - 1) IN
         IF responses[k].ip # clientIP THEN before
         ELSE IF before = -1 \/ responses[k].at - before > RATE_LIMIT_WINDOW
              THEN responses[k].at
         ELSE before

\* answer k came while a window of its IP was running
InWindow(k) ==
    LET start == WindowStart(responses[k].ip, k - 1) IN
    start # -1 /\ responses[k].at - start <= RATE_LIMIT_WINDOW

\* C23: a request answered within 10 seconds of the start of its IP's window
\* (the first request that was counted) is rejected exactly when 3 requests
\* of that IP were admitted in the window before it, so the first 3 are
\* admitted and every further one is rejected; a rejection is a 429 with
\* rateLimited = true.
C23_ThreePerWindow ==
    \A k \in 1..Len(responses) :
        /\ responses[k].rateLimited <=> responses[k].status = "429"
        /\ InWindow(k) =>
            (responses[k].rateLimited <=>
                Cardinality(AdmittedSince(responses[k].ip,
                                WindowStart(responses[k].ip, k - 1), k - 1))
                    = MAX_REQUESTS_PER_WINDOW)

\* client A was admitted three times and then rejected twice within one
\* window, the last time at the very end of the window
C23_Witness ==
    /\ Len(responses) = 5
    /\ \A k \in 1..5 : responses[k].ip = "A"
    /\ \A k \in 1..3 : ~responses[k].rateLimited
    /\ responses[4].rateLimited /\ responses[5].rateLimited
    /\ responses[5].at = responses[1].at + RATE_LIMIT_WINDOW

\* C24: a request that comes when no window of its IP is running (none yet,
\* or more than 10 seconds after the start of the last one) is admitted,
\* whatever was rejected before; the map then holds for the IP the window
\* that started with that request, and counts the requests admitted in it
\* (1 right after the request).
C24_WindowResets ==
    /\ \A k \in 1..Len(responses) : ~InWindow(k) => ~responses[k].rateLimited
    /\ \A ip \in ClientIPs :
        rateLimitMap[ip] # NoEntry =>
            /\ rateLimitMap[ip].firstRequest = WindowStart(ip, Len(responses))
            /\ rateLimitMap[ip].count =
                    Cardinality(AdmittedSince(ip, rateLimitMap[ip].firstRequest,
                                              Len(responses)))

\* client A, rejected in its first window, was admitted one millisecond after
\* that window's end and has a new window with count 1
C24_Witness ==
    /\ Len(responses) = 5
    /\ \A k \in 1..5 : responses[k].ip = "A"
    /\ responses[4].rateLimited
    /\ ~responses[5].rateLimited
    /\ responses[5].at = responses[1].at + RATE_LIMIT_WINDOW + 1
    /\ rateLimitMap["A"] = [count |-> 1, firstRequest |-> responses[5].at]

\* what a request of clientIP would be told in the present state
WouldBeLimited(clientIP) == isRateLimited(clientIP).limited

\* C25: a request of one IP leaves the entry of every other IP as it was, and
\* with it the answer a request of that other IP would get.
C25_PerClientIndependent ==
    [][\A a, b \in ClientIPs :
        (Handles(a) /\ b # a) =>
            /\ rateLimitMap'[b] = rateLimitMap[b]
            /\ WouldBeLimited(b)' = WouldBeLimited(b)]_vars

\* client A is being rejected while client B, in the same seconds, is
\* admitted
C25_Witness ==
    /\ Len(responses) = 5
    /\ responses[4].ip = "A" /\ responses[4].rateLimited
    /\ responses[5].ip = "B" /\ ~responses[5].rateLimited
    /\ responses[5].at = responses[4].at
    /\ rateLimitMap["A"].count = MAX_REQUESTS_PER_WINDOW

\* the status update that cycle c awaits for schedule id settles in this step
UpdateApplied(id) ==
    \E c \in Cycles :
        /\ \/ UpdateSettles(c, "updateCompleted")
           \/ UpdateSettles(c, "updateFailed")
        /\ Current(c).id = id

\* C26: a step that applies a status update to a schedule raises its
\* execution_count by exactly 1; no other step changes a schedule's
\* execution_count or status; and a schedule that was never picked up has
\* execution_count 0, one that was picked up n times at most n.
C26_CountsStatusUpdates ==
    /\ [](\A r \in scheduled_prompts :
            r.execution_count \in 0..pickups[r.id])
    /\ [][\A r \in scheduled_prompts : \A x \in scheduled_prompts' :
            x.id = r.id =>
                IF UpdateApplied(r.id)
                THEN x.execution_count = r.execution_count + 1
                ELSE x.execution_count = r.execution_count
                        /\ x.status = r.status]_vars

\* a schedule picked up by two cycles has had two status updates and has
\* execution_count 2, while the other schedule was picked up and its status
\* update has not been applied
C26_Witness ==
    /\ \E r \in scheduled_prompts :
        r.execution_count = 2 /\ pickups[r.id] = 2
    /\ \E r \in scheduled_prompts :
        r.execution_count = 0 /\ pickups[r.id] > 0

\* the try block of an execution of schedule id was left by a rejected log
\* write or status update: only the catch block writes a 'failed' log entry
StorageErrorLogged(id) ==
    \E n \in 1..Len(automation_logs) :
        /\ automation_logs[n].scheduled_prompt_id = id
        /\ automation_logs[n].status = "failed"

\* C27: a schedule whose execution met a storage error in its log write or
\* status update is still pending once no cycle is executing it.
C27_StorageErrorLeavesPending ==
    \A r \in scheduled_prompts :
        (StorageErrorLogged(r.id) /\ \A c \in Executing : Current(c).id # r.id)
            => r.status = "pending"

\* cycle c, which has fetched its due schedules, returns or throws in this step
CycleEnds(c) ==
    /\ c \in Executing
    /\ cycles'[c].pc = "idle"

\* C28: a poll cycle ends only after it has executed every schedule it
\* fetched as due, storage errors in log writes and status updates
\* notwithstanding.
C28_CycleExecutesAllFetched ==
    [][\A c \in Cycles :
        CycleEnds(c) => cycles[c].i = Len(cycles[c].duePrompts)]_vars

\* the Discord part of an integration-results object
DiscordPart(results) == <<results.discord, results.discordError>>

\* the Telegram part of an integration-results object
TelegramPart(results) == <<results.telegram, results.telegramError>>

\* C29: for a schedule with both channels enabled, whatever the Telegram block
\* meets, the Discord block runs next (and calls the notifier when Discord
\* settings are found); the Telegram block writes only the Telegram flag and
\* error, the Discord block only the Discord ones; and the success log entry
\* carries both parts as the blocks left them.
C29_ChannelsIndependent ==
    [][\A c \in Cycles :
        /\ (cycles[c].pc = "telegram" /\ cycles'[c] # cycles[c]
                /\ Current(c).integrations.discord) =>
              /\ cycles'[c].pc = "discord"
              /\ DiscordPart(cycles'[c].integrationResults) =
                    DiscordPart(cycles[c].integrationResults)
        /\ (cycles[c].pc = "discord" /\ cycles'[c] # cycles[c]) =>
              /\ cycles'[c].pc = "logSuccess"
              /\ TelegramPart(cycles'[c].integrationResults) =
                    TelegramPart(cycles[c].integrationResults)
              /\ (getDiscordSettings(Current(c).pro_key_id) # NULL
                        /\ faults' = faults) =>
                    <<Current(c).id, "discord">> \in notifierCalls'
        /\ (cycles[c].pc = "logSuccess" /\ cycles'[c].pc = "updateCompleted") =>
              automation_logs'[Len(automation_logs')].integration_results =
                    cycles[c].integrationResults]_vars

\* a success log entry records a failed Telegram send next to a Discord
\* delivery
C29_Witness ==
    \E n \in 1..Len(automation_logs) :
        LET results == automation_logs[n].integration_results IN
        /\ automation_logs[n].status = "success"
        /\ TelegramPart(results) = <<FALSE, "send failed">>
        /\ DiscordPart(results) = <<TRUE, NULL>>

\* the status that the update awaited by a cycle at pc sets
StatusSetAt(pc) == IF pc = "updateCompleted" THEN "completed" ELSE "failed"

\* C30: a cycle that has written a schedule's log entry and awaits the status
\* update is not cut short by a stop or a shutdown: the step in which it
\* leaves that await, unless the store rejects the update, leaves the
\* schedule's record with the status the update sets.
C30_LoggedAttemptGetsStatus ==
    [][\A c \in Cycles :
        (/\ cycles[c].pc \in {"updateCompleted", "updateFailed"}
         /\ cycles'[c] # cycles[c]
         /\ faults' = faults) =>
            \A r \in scheduled_prompts' :
                r.id = Current(c).id => r.status = StatusSetAt(cycles[c].pc)]_vars

\* C31: a schedule whose execution_count is above 0 has a last_execution
\* instant.
C31_ExecutedHasLastExecution ==
    \A r \in scheduled_prompts :
        r.execution_count > 0 => r.last_execution # NULL

\* the columns of a schedule that are written at creation only
CreationColumns(r) ==
    <<r.pro_key_id, r.prompt_title, r.prompt_content, r.scheduled_time,
      r.user_timezone, r.display_time, r.integrations>>

\* C32: no step changes the owner, title, content, scheduled time, time
\* zone, display string or channel flags of a schedule in the store, and the
\* list read returns for every schedule the display string that creation
\* rendered for its scheduled time and time zone.
C32_CreationColumnsKept ==
    /\ [][\A r \in scheduled_prompts : \A x \in scheduled_prompts' :
            x.id = r.id => CreationColumns(x) = CreationColumns(r)]_vars
    /\ [](\A key \in ProKeys : \A row \in getUserScheduledPrompts(key) :
            row.displayTime =
                formatDisplayTime(row.scheduledTime, row.userTimezone))

\* the schedule of the start has been executed, and a schedule created with
\* a time zone that Intl rejects has been executed at its scheduled time
C32_Witness ==
    /\ \E r \in scheduled_prompts : r.id = 1 /\ r.status = "completed"
    /\ \E r \in scheduled_prompts :
        /\ r.user_timezone = "Mars/Phobos"
        /\ r.scheduled_time = checkInterval
        /\ r.execution_count = 1

\* answers that admitted a request of clientIP in the interval of length
\* RATE_LIMIT_WINDOW that begins at instant t
AdmittedWithin(clientIP, t) ==
    {j \in AnswersTo(clientIP) :
        /\ ~responses[j].rateLimited
        /\ responses[j].at >= t
        /\ responses[j].at < t + RATE_LIMIT_WINDOW}

\* C33: for each client IP, every interval of 10 seconds holds at most 3
\* admitted requests (it is enough to look at the intervals that begin with
\* a request of that IP).
C33_ThreePerAnyInterval ==
    \A k \in 1..Len(responses) :
        Cardinality(AdmittedWithin(responses[k].ip, responses[k].at))
            <= MAX_REQUESTS_PER_WINDOW

\* C34: once every usage-recording call has returned or thrown, the
\* usage_count of each key equals the number of key_usage rows of that key.
C34_CountEqualsUsageRows ==
    (\A u \in UsageCalls : usageCalls[u].pc = "idle") =>
        \A k \in ProKeys : usage_count[k] = Cardinality(UsageRows(k))

\* C35: every text handed to Telegram's sendMessage, whole or as a chunk of
\* splitLongMessage, is at most 4096 characters long.
C35_TextsWithinLimit ==
    \A k \in 1..Len(sentTexts) :
        \A j \in 1..Len(sentTexts[k].texts) :
            sentTexts[k].texts[j] <= MAX_MESSAGE_LENGTH

\* a save call that was issued while the row of its pair was soft-deleted
\* finishes in this step
SaveAfterDeleteEnds(c) ==
    /\ c <= Len(settingsCalls)
    /\ settingsCalls[c].op = "save"
    /\ settingsCalls[c].found = "deleted"
    /\ settingsCalls[c].pc = "selected"
    /\ settingsCalls'[c].pc # "selected"

\* C36: the table holds at most one row per (owner, channel) (the store's
\* uniqueness rule), and a save issued after a soft delete succeeds and leaves
\* the saved settings as what getUserIntegrationSettings returns.
C36_SaveAfterSoftDelete ==
    [][\A c \in 1..MaxSettingsCalls :
          SaveAfterDeleteEnds(c) =>
              /\ settingsCalls'[c].pc = "returned"
              /\ settings'[<<settingsCalls[c].proKeyId, settingsCalls[c].integrationType>>]
                    = settingsCalls[c].settings]_vars

\* C37: for every owner, getAutomationStats and checkUserScheduleLimit report
\* the same number of remaining slots.
C37_RemainingAgrees ==
    \A proKeyId \in ProKeys :
        getAutomationStats(proKeyId).schedules.remaining
            = checkUserScheduleLimit(proKeyId).remaining

\* positions of the log entries written for a schedule, with a given status
\* or (status NULL) with any
WrittenFor(id, status) ==
    {n \in 1..Len(automation_logs) :
        /\ automation_logs[n].scheduled_prompt_id = id
        /\ status # NULL => automation_logs[n].status = status}

\* every entry in the log stays where it was written
LogKept ==
    /\ Len(automation_logs') >= Len(automation_logs)
    /\ SubSeq(automation_logs', 1, Len(automation_logs)) = automation_logs

\* C38: the log write precedes the status update. No step removes a log
\* entry, so the log holds every entry ever written; a completed schedule
\* has a 'success' entry, a failed schedule has a 'failed' entry, and the
\* execution_count of a schedule is at most the number of its entries.
C38_LogPrecedesStatus ==
    /\ [][LogKept]_vars
    /\ [](\A r \in scheduled_prompts :
            /\ r.status = "completed" => WrittenFor(r.id, "success") # {}
            /\ r.status = "failed" => WrittenFor(r.id, "failed") # {}
            /\ r.execution_count <= Cardinality(WrittenFor(r.id, NULL)))

\* two executions of one schedule: both status updates were applied, the last
\* one by a catch block, and the log holds exactly the two entries they wrote
C38_Witness ==
    \E r \in scheduled_prompts :
        /\ r.status = "failed"
        /\ r.execution_count = 2
        /\ Cardinality(WrittenFor(r.id, NULL)) = 2
        /\ WrittenFor(r.id, "failed") # {}
        /\ WrittenFor(r.id, "success") # {}

\* the entry of clientIP after the first k answers when no clean-up ever
\* runs, replayed from the instants of its requests
RECURSIVE EntryWithoutSweep(_, _)
EntryWithoutSweep(clientIP, k) ==
    IF k = 0 THEN NoEntry
    ELSE LET before == EntryWithoutSweep(clientIP, k - 1)
             at == responses[k].at
         IN IF responses[k].ip # clientIP THEN before
            ELSE IF before = NoEntry \/ at - before.firstRequest > RATE_LIMIT_WINDOW
                THEN [count |-> 1, firstRequest |-> at]
            ELSE IF before.count >= MAX_REQUESTS_PER_WINDOW THEN before
            ELSE [before EXCEPT !.count = @ + 1]

\* the decision on the request of answer k when no clean-up ever runs
LimitedWithoutSweep(k) ==
    LET before == EntryWithoutSweep(responses[k].ip, k - 1) IN
    /\ before # NoEntry
    /\ responses[k].at - before.firstRequest <= RATE_LIMIT_WINDOW
    /\ before.count >= MAX_REQUESTS_PER_WINDOW

\* C39: every request is admitted or rejected as it would be if the periodic
\* clean-up of rateLimitMap never ran.
C39_SweepKeepsDecisions ==
    \A k \in 1..Len(responses) :
        responses[k].rateLimited <=> LimitedWithoutSweep(k)

\* a clean-up deleted the entry of a client that had used up its window, and
\* the client has sent a request since
C39_Witness ==
    \E ip \in swept :
        /\ rateLimitMap[ip] # NoEntry
        /\ \E k \in AnswersTo(ip) : responses[k].rateLimited

====
